---- MODULE Spec2Model ----
(***************************************************************************)
(* A model of the walkdir2 traversal engine (src/walk/walk.rs) with its    *)
(* directory states (src/walk/dir.rs) and read-dir handles                 *)
(* (src/walk/rawdent.rs), over a small family of file systems seen through *)
(* the adapter interface of src/fs/mod.rs.                                 *)
(*                                                                         *)
(* Every iteration of the loop of WalkDirIterator::next is one action; the *)
(* variable ret holds what the call in progress has returned ("Continue"   *)
(* while the loop is still running), so the states between two calls are   *)
(* those with ret.type # "Continue".                                       *)
(***************************************************************************)
EXTENDS Integers, Sequences, FiniteSets, TLC

VARIABLES
    fs,               \* the file system walked (an input)
    opts,             \* WalkDirOptions: the immutable options and the sorter
    root,             \* WalkDirIterator.root: TRUE while it is Some(path)
    states,           \* WalkDirIterator.states: the stack of DirState
    transition_state, \* WalkDirIterator.transition_state
    ancestors,        \* WalkDirIterator.ancestors
    opened_count,     \* WalkDirIterator.opened_count
    root_device,      \* WalkDirIterator.root_device (NoDevice for None)
    ret,              \* result of the last loop iteration of next()
    trace,            \* the positions yielded so far
    skips,            \* number of skip_current_dir calls made
    predicate         \* FilterEntry.predicate: the paths it rejects ({}: no adapter)

vars == <<fs, opts, root, states, transition_state, ancestors, opened_count,
          root_device, ret, trace, skips, predicate>>

-----------------------------------------------------------------------------
(* Bounds of the model *)

\* largest max_open tried (0 stands for "not limited")
MaxOpen == 2
\* largest finite max_depth tried
MaxDepthOpt == 2
\* largest min_depth tried
MaxMinDepth == 1
\* most skip_current_dir calls in one run
MaxSkips == 1

\* usize::MAX, the default of max_depth: deeper than any tree of the model
DepthUnlimited == 99

-----------------------------------------------------------------------------
(* The file systems.  A node is a number; kind[n] is its type as lstat     *)
(* reports it ("bad" is an entry whose type cannot be read), kids[n] the   *)
(* entries of directory n in the order the platform iterator returns them, *)
(* target[n] the node a symlink resolves to (0: dangling), dev[n] its      *)
(* device.  rdErr: directories read_dir fails on; fpErr: directories       *)
(* fingerprint fails on; devErr: nodes device_num fails on; cpFail:        *)
(* entries the content processor cannot convert; noPush: entries the       *)
(* content processor refuses to descend into.  root = 0: no such path.     *)

MkFS(rt, kind, kids, target, dev) ==
    [root |-> rt, kind |-> kind, kids |-> kids, target |-> target, dev |-> dev,
     rdErr |-> {}, fpErr |-> {}, devErr |-> {}, cpFail |-> {}, noPush |-> {}]

\* a/{b, c/{e, d}}
FSTree ==
    MkFS(1, <<"dir", "file", "dir", "file", "file">>,
         <<(<<2, 3>>), <<>>, (<<5, 4>>), <<>>, <<>> >>,
         <<0, 0, 0, 0, 0>>, <<0, 0, 0, 0, 0>>)

\* r/{f, x -> r}
FSLoopSelf ==
    MkFS(1, <<"dir", "link", "file">>,
         <<(<<3, 2>>), <<>>, <<>> >>,
         <<0, 1, 0>>, <<0, 0, 0>>)

\* r/{d1/{d2/{}}, s -> d1}
FSDrain ==
    MkFS(1, <<"dir", "dir", "dir", "link">>,
         <<(<<2, 4>>), (<<3>>), <<>>, <<>> >>,
         <<0, 0, 0, 2>>, <<0, 0, 0, 0>>)

\* r/{a/{l -> r, g}, t -> a, k -> g}
FSLinks ==
    MkFS(1, <<"dir", "dir", "link", "file", "link", "link">>,
         <<(<<2, 5, 6>>), (<<3, 4>>), <<>>, <<>>, <<>>, <<>> >>,
         <<0, 0, 1, 0, 2, 4>>, <<0, 0, 0, 0, 0, 0>>)

\* r/{u/{y} (unreadable), b(bad), p/{h} (no fingerprint), z -> nowhere, e/{}, f}
FSErrors ==
    [MkFS(1, <<"dir", "dir", "bad", "dir", "file", "link", "dir", "file", "file">>,
          <<(<<2, 3, 4, 6, 7, 8>>), (<<9>>), <<>>, (<<5>>), <<>>, <<>>, <<>>, <<>>, <<>> >>,
          <<0, 0, 0, 0, 0, 0, 0, 0, 0>>, <<0, 0, 0, 0, 0, 0, 0, 0, 0>>)
     EXCEPT !.rdErr = {2}, !.fpErr = {4}]

\* r/{m/{n} on another device, g, q/{w/{}, v}}
FSDevices ==
    MkFS(1, <<"dir", "dir", "file", "file", "dir", "dir", "file">>,
         <<(<<2, 4, 5>>), (<<3>>), <<>>, <<>>, (<<6, 7>>), <<>>, <<>> >>,
         <<0, 0, 0, 0, 0, 0, 0>>, <<0, 1, 1, 0, 0, 0, 0>>)

\* r/{m/{n} on another device, l -> m/n, k -> m}
FSDevLink ==
    MkFS(1, <<"dir", "dir", "file", "link", "link">>,
         <<(<<2, 4, 5>>), (<<3>>), <<>>, <<>>, <<>> >>,
         <<0, 0, 0, 3, 2>>, <<0, 1, 1, 0, 0>>)

\* r/{c/{x}, g}, with a content processor that cannot convert c
FSCpFail ==
    [MkFS(1, <<"dir", "dir", "file", "file">>,
          <<(<<2, 4>>), (<<3>>), <<>>, <<>> >>,
          <<0, 0, 0, 0>>, <<0, 0, 0, 0>>)
     EXCEPT !.cpFail = {2}]

\* the root is a plain file
FSFileRoot ==
    MkFS(1, <<"file">>, << <<>> >>, <<0>>, <<0>>)

\* the root path does not exist
FSNoRoot ==
    MkFS(0, <<"file">>, << <<>> >>, <<0>>, <<0>>)

FileSystems ==
    {FSTree, FSLoopSelf, FSDrain, FSLinks, FSErrors, FSDevices, FSDevLink, FSCpFail,
     FSFileRoot, FSNoRoot}

\* v bound to a name in the body Op: a value computed once and used many times
With(v, Op(_)) == Op(v)

-----------------------------------------------------------------------------
(* The adapter: FsDirEntry / FsRootDirEntry of src/fs/mod.rs *)

NoDevice == -1
NoPath == <<>>

Last(s) == s[Len(s)]

\* the node a path names after resolving a symlink (0 when dangling)
Resolve(f, n) == IF f.kind[n] = "link" THEN f.target[n] ELSE n

\* FsDirEntry::file_type(follow_link): "err" when it fails
FsFileTypeOf(f, n, follow_link) ==
    IF f.kind[n] = "bad" THEN "err"
    ELSE IF follow_link /\ f.kind[n] = "link"
         THEN IF f.target[n] = 0 THEN "err" ELSE f.kind[f.target[n]]
         ELSE f.kind[n]

\* FsDirEntry::read_dir (always follows the symlink): succeeds or not
FsReadDirOk(f, n) ==
    /\ Resolve(f, n) # 0
    /\ f.kind[Resolve(f, n)] = "dir"
    /\ Resolve(f, n) \notin f.rdErr

\* FsDirEntry::fingerprint (always follows the symlink): 0 when it fails
FsFingerprint(f, n) ==
    IF Resolve(f, n) = 0 \/ Resolve(f, n) \in f.fpErr THEN 0 ELSE Resolve(f, n)

\* FsDirEntry::is_same: the fingerprints are equal
FsIsSame(lhs, rhs) == lhs.fingerprint = rhs.fingerprint

\* FsDirEntry::device_num (always follows the symlink): NoDevice when it fails
FsDeviceNum(f, n) ==
    IF Resolve(f, n) = 0 \/ Resolve(f, n) \in f.devErr THEN NoDevice
    ELSE f.dev[Resolve(f, n)]

-----------------------------------------------------------------------------
(* Errors: ErrorInner of src/error.rs *)

NoErr == [kind |-> "none", path |-> NoPath, ancestor |-> NoPath]
\* into_io_err: an I/O error without a path
IoErr == [kind |-> "Io", path |-> NoPath, ancestor |-> NoPath]
\* into_path_err: an I/O error with the path operated on
PathErr(p) == [kind |-> "Io", path |-> p, ancestor |-> NoPath]
\* ErrorInner::from_loop
LoopErr(anc, child) == [kind |-> "Loop", path |-> child, ancestor |-> anc]

-----------------------------------------------------------------------------
(* RawDirEntry of src/walk/rawdent.rs: the path (the chain of entry names  *)
(* from the root), the follow_link flag and the cached type.               *)

NoRaw == [path |-> NoPath, follow_link |-> FALSE, ty |-> "none"]

RawNode(raw) == Last(raw.path)

\* RawDirEntry::from_path
RawFromPath(f) ==
    IF f.root = 0 \/ FsFileTypeOf(f, f.root, FALSE) = "err"
    THEN [ok |-> FALSE, raw |-> NoRaw, err |-> PathErr(<<f.root>>)]
    ELSE [ok |-> TRUE,
          raw |-> [path |-> <<f.root>>, follow_link |-> FALSE,
                   ty |-> FsFileTypeOf(f, f.root, FALSE)],
          err |-> NoErr]

\* RawDirEntry::from_fsdent
RawFromFsdent(f, p) ==
    IF FsFileTypeOf(f, Last(p), FALSE) = "err"
    THEN [ok |-> FALSE, raw |-> NoRaw, err |-> IoErr]
    ELSE [ok |-> TRUE,
          raw |-> [path |-> p, follow_link |-> FALSE,
                   ty |-> FsFileTypeOf(f, Last(p), FALSE)],
          err |-> NoErr]

\* RawDirEntry::file_type_follow
RawFileTypeFollow(f, raw) == FsFileTypeOf(f, RawNode(raw), TRUE)

\* RawDirEntry::follow
RawFollow(f, raw) ==
    IF RawFileTypeFollow(f, raw) = "err"
    THEN [ok |-> FALSE, raw |-> NoRaw, err |-> PathErr(raw.path)]
    ELSE [ok |-> TRUE,
          raw |-> [path |-> raw.path, follow_link |-> TRUE,
                   ty |-> RawFileTypeFollow(f, raw)],
          err |-> NoErr]

\* RawDirEntry::make_content_item: FALSE when the content processor gives None
RawMakeContentItemOk(f, raw) == RawNode(raw) \notin f.cpFail

\* RawDirEntry::allow_push
RawAllowPush(f, raw) == RawNode(raw) \notin f.noPush

-----------------------------------------------------------------------------
(* Ancestor, check_loop, follow and process_rawdent of src/walk/walk.rs *)

NoLoop == -1

\* Ancestor::new: ok is FALSE when the fingerprint cannot be computed
AncestorNew(f, raw) ==
    [ok |-> FsFingerprint(f, RawNode(raw)) # 0,
     path |-> raw.path,
     fingerprint |-> FsFingerprint(f, RawNode(raw))]

\* Ancestor::is_same
AncestorIsSame(a, b) == FsIsSame(a, b)

\* WalkDirIterator::check_loop: the index (from 0) of the deepest ancestor that
\* is the same directory as raw, NoLoop when there is none
CheckLoop(f, raw, anc) ==
    With(AncestorNew(f, raw), LAMBDA me :
        LET hits == {i \in 1..Len(anc) : AncestorIsSame(anc[i], me)}
        IN  IF ~me.ok THEN [ok |-> FALSE, loop_link |-> NoLoop, err |-> IoErr]
            ELSE IF hits = {} THEN [ok |-> TRUE, loop_link |-> NoLoop, err |-> NoErr]
            ELSE [ok |-> TRUE,
                  loop_link |-> (CHOOSE i \in hits : \A j \in hits : j <= i) - 1,
                  err |-> NoErr])

\* WalkDirIterator::follow
Follow(f, raw, anc) ==
    With(RawFollow(f, raw), LAMBDA fl :
        IF ~fl.ok THEN [ok |-> FALSE, raw |-> NoRaw, loop_link |-> NoLoop, err |-> fl.err]
        ELSE IF fl.raw.ty = "dir" /\ anc # <<>>
        THEN With(CheckLoop(f, fl.raw, anc), LAMBDA lp :
                 IF lp.ok
                 THEN [ok |-> TRUE, raw |-> fl.raw, loop_link |-> lp.loop_link,
                       err |-> NoErr]
                 ELSE [ok |-> FALSE, raw |-> NoRaw, loop_link |-> NoLoop, err |-> lp.err])
        ELSE [ok |-> TRUE, raw |-> fl.raw, loop_link |-> NoLoop, err |-> NoErr])

\* FlatDirEntry of src/walk/dir.rs
NoFlat == [raw |-> NoRaw, is_dir |-> FALSE, loop_link |-> NoLoop]

FlatOk(raw, is_dir, loop_link) ==
    [tag |-> "Ok", flat |-> [raw |-> raw, is_dir |-> is_dir, loop_link |-> loop_link],
     err |-> NoErr]
FlatErr(err) == [tag |-> "Err", flat |-> NoFlat, err |-> err]
FlatSkip == [tag |-> "Skip", flat |-> NoFlat, err |-> NoErr]

\* WalkDirIterator::is_same_file_system and its use in process_rawdent
SameFileSystemStep(f, raw, loop_link, rdev) ==
    IF FsDeviceNum(f, RawNode(raw)) = NoDevice THEN FlatErr(IoErr)
    ELSE IF FsDeviceNum(f, RawNode(raw)) = rdev THEN FlatOk(raw, TRUE, loop_link)
    ELSE FlatSkip

\* WalkDirIterator::process_rawdent
ProcessRawdent(f, o, rawdent, depth, rdev, anc) ==
    With(IF rawdent.ty = "link" /\ o.follow_links
         THEN Follow(f, rawdent, anc)
         ELSE [ok |-> TRUE, raw |-> rawdent, loop_link |-> NoLoop, err |-> NoErr],
         LAMBDA fl :
        LET raw == fl.raw
            is_normal_dir == raw.ty # "link" /\ raw.ty = "dir"
        IN  IF ~fl.ok THEN FlatErr(fl.err)
            ELSE IF is_normal_dir
            THEN IF o.same_file_system /\ depth > 0
                 THEN SameFileSystemStep(f, raw, fl.loop_link, rdev)
                 ELSE FlatOk(raw, TRUE, fl.loop_link)
            ELSE IF depth = 0 /\ raw.ty = "link"
            THEN IF RawFileTypeFollow(f, raw) = "err"
                 THEN FlatErr(PathErr(raw.path))
                 ELSE FlatOk(raw, RawFileTypeFollow(f, raw) = "dir", fl.loop_link)
            ELSE FlatOk(raw, FALSE, fl.loop_link))

-----------------------------------------------------------------------------
(* DirEntryRecord of src/walk/dir.rs *)

\* DirEntryRecord::new for an entry that was read: r is a result of
\* RawFromFsdent (or the root entry); some is FALSE when the entry is rejected
DirEntryRecordNew(f, o, r, depth, rdev, anc) ==
    With(IF r.ok THEN ProcessRawdent(f, o, r.raw, depth, rdev, anc)
         ELSE FlatErr(r.err),
         LAMBDA p :
        IF p.tag = "Skip"
        THEN [some |-> FALSE,
              rec |-> [ok |-> FALSE, flat |-> NoFlat, err |-> NoErr,
                       first_pass |-> FALSE, hidden |-> FALSE]]
        ELSE IF p.tag = "Ok"
        THEN [some |-> TRUE,
              rec |-> [ok |-> TRUE, flat |-> p.flat, err |-> NoErr,
                       first_pass |->
                           CASE o.content_order = "None" -> FALSE
                             [] o.content_order = "DirsFirst" -> p.flat.is_dir
                             [] o.content_order = "FilesFirst" -> ~p.flat.is_dir,
                       hidden |->
                           CASE o.content_filter = "None" -> FALSE
                             [] o.content_filter = "DirsOnly" -> ~p.flat.is_dir
                             [] o.content_filter = "FilesOnly" -> p.flat.is_dir
                             [] o.content_filter = "SkipAll" -> TRUE]]
        ELSE [some |-> TRUE,
              rec |-> [ok |-> FALSE, flat |-> NoFlat, err |-> p.err,
                       first_pass |-> FALSE, hidden |-> FALSE]])

\* DirEntryRecord::can_be_yielded
CanBeYielded(rec) ==
    IF ~rec.hidden THEN TRUE
    ELSE IF rec.ok THEN rec.flat.is_dir
    ELSE FALSE

-----------------------------------------------------------------------------
(* ReadDir of src/walk/rawdent.rs: Once{item}, Opened{rd}, Closed,         *)
(* Error{err}.  An Opened handle holds the path of its directory and the   *)
(* entries the platform iterator has not returned yet.                     *)

RdClosed == [st |-> "Closed", item |-> NoRaw, dir |-> NoPath, rest |-> <<>>, err |-> NoErr]

\* ReadDir::new_once
ReadDirNewOnce(raw) == [RdClosed EXCEPT !.st = "Once", !.item = raw]

\* ReadDir::new, on the handle RawDirEntry::read_dir has opened for parent
ReadDirNew(f, parent) ==
    [RdClosed EXCEPT !.st = "Opened", !.dir = parent.path,
                     !.rest = f.kids[Resolve(f, RawNode(parent))]]

\* ReadDir::is_open
ReadDirIsOpen(rd) == rd.st = "Opened"

\* ReadDir::on_drop: the counter after the handle is dropped
ReadDirOnDrop(rd, oc) == IF rd.st = "Opened" THEN oc - 1 ELSE oc

\* ReadDir::next that hands out the item of Once without closing the handle
ReadDirNextOnceStays(f, rd, oc) ==
    IF rd.st = "Once"
    THEN [rd |-> rd, none |-> FALSE,
          r |-> [ok |-> TRUE, raw |-> rd.item, err |-> NoErr], oc |-> oc]
    ELSE IF rd.st = "Opened" /\ rd.rest # <<>>
    THEN [rd |-> [rd EXCEPT !.rest = Tail(rd.rest)], none |-> FALSE,
          r |-> RawFromFsdent(f, Append(rd.dir, Head(rd.rest))), oc |-> oc]
    ELSE [rd |-> RdClosed, none |-> rd.st # "Error",
          r |-> [ok |-> FALSE, raw |-> NoRaw, err |-> rd.err],
          oc |-> IF rd.st = "Opened" THEN oc - 1 ELSE oc]

\* ReadDir::next: the handle after the call, what it returned (none: it
\* returned None; else r is the Result) and the counter
ReadDirNext(f, rd, oc) ==
    CASE rd.st = "Once" ->
           [rd |-> RdClosed, none |-> FALSE,
            r |-> [ok |-> TRUE, raw |-> rd.item, err |-> NoErr], oc |-> oc]
      [] rd.st = "Opened" ->
           IF rd.rest # <<>>
           THEN [rd |-> [rd EXCEPT !.rest = Tail(rd.rest)], none |-> FALSE,
                 r |-> RawFromFsdent(f, Append(rd.dir, Head(rd.rest))), oc |-> oc]
           ELSE [rd |-> RdClosed, none |-> TRUE,
                 r |-> [ok |-> FALSE, raw |-> NoRaw, err |-> NoErr], oc |-> oc - 1]
      [] rd.st = "Closed" ->
           [rd |-> rd, none |-> TRUE,
            r |-> [ok |-> FALSE, raw |-> NoRaw, err |-> NoErr], oc |-> oc]
      [] rd.st = "Error" ->
           [rd |-> RdClosed, none |-> FALSE,
            r |-> [ok |-> FALSE, raw |-> NoRaw, err |-> rd.err], oc |-> oc]

\* process_rawdent applied to the results rs a handle gives one after the
\* other, the rejected ones (None) filtered out
RECURSIVE CollectRecords(_, _, _, _, _, _)
CollectRecords(f, o, rs, depth, rdev, anc) ==
    IF rs = <<>> THEN <<>>
    ELSE With(DirEntryRecordNew(f, o, Head(rs), depth, rdev, anc), LAMBDA n :
             (IF n.some THEN <<n.rec>> ELSE <<>>)
             \o CollectRecords(f, o, Tail(rs), depth, rdev, anc))

\* the results ReadDirOpenedIterator draws from an Opened handle
OpenedResults(f, rd) ==
    [i \in 1..Len(rd.rest) |-> RawFromFsdent(f, Append(rd.dir, rd.rest[i]))]

\* ReadDir::collect_all: the handle becomes Closed, the records of what was
\* left are returned
ReadDirCollectAll(f, o, rd, depth, rdev, anc, oc) ==
    [rd |-> RdClosed,
     recs |-> CollectRecords(f, o,
                 CASE rd.st = "Once" -> <<[ok |-> TRUE, raw |-> rd.item, err |-> NoErr]>>
                   [] rd.st = "Opened" -> OpenedResults(f, rd)
                   [] rd.st = "Closed" -> <<>>
                   [] rd.st = "Error" -> <<[ok |-> FALSE, raw |-> NoRaw, err |-> rd.err]>>,
                 depth, rdev, anc),
     oc |-> IF rd.st = "Opened" THEN oc - 1 ELSE oc]

-----------------------------------------------------------------------------
(* DirContent and DirState of src/walk/dir.rs, as one record: depth, the   *)
(* handle rd, the records content, the cursor current_pos (NoPos for None, *)
(* else an index from 0), the pass and the position.                       *)

NoPos == -1

\* the comparator installed by sort_by in the model: by entry name
SorterGreater(a, b) == RawNode(a.raw) > RawNode(b.raw)

\* the ordering closure of DirContent::sort_content_and_rewind: a is Greater than b
RecordGreater(a, b) ==
    \/ a.ok /\ ~b.ok
    \/ a.ok /\ b.ok /\ SorterGreater(a.flat, b.flat)

\* slice::sort_by is stable: x goes before the first record Greater than it
RECURSIVE SortInsert(_, _)
SortInsert(x, s) ==
    IF s = <<>> THEN <<x>>
    ELSE IF RecordGreater(Head(s), x) THEN <<x>> \o s
    ELSE <<Head(s)>> \o SortInsert(x, Tail(s))

RECURSIVE SortBy(_, _)
SortBy(done, todo) ==
    IF todo = <<>> THEN done
    ELSE SortBy(SortInsert(Head(todo), done), Tail(todo))

\* DirContent::sort_content_and_rewind
SortContentAndRewind(st) ==
    [st EXCEPT !.content = SortBy(<<>>, st.content), !.current_pos = NoPos]

\* get_initial_pass that ignores content_order
GetInitialPassEntire(o) == "Entire"

\* get_initial_pass
GetInitialPass(o) == IF o.content_order = "None" THEN "Entire" ELSE "First"

\* DirState::is_open
IsOpen(st) == ReadDirIsOpen(st.rd)

\* DirContent::load_all / DirState::load_all
LoadAll(f, o, st, rdev, anc, oc) ==
    With(ReadDirCollectAll(f, o, st.rd, st.depth, rdev, anc, oc), LAMBDA c :
        [st |-> [st EXCEPT !.rd = c.rd, !.content = st.content \o c.recs],
         oc |-> c.oc,
         was_open |-> ReadDirIsOpen(st.rd)])

\* DirContent::load_all_and_sort
LoadAllAndSort(f, o, st, rdev, anc, oc) ==
    With(LoadAll(f, o, st, rdev, anc, oc), LAMBDA l :
        [st |-> SortContentAndRewind(l.st), oc |-> l.oc])

\* DirState::init that never sorts
DirStateInitNoSort(f, o, st, rdev, anc, oc) == [st |-> st, oc |-> oc]

\* DirState::init
DirStateInit(f, o, st, rdev, anc, oc) ==
    IF o.sorter THEN LoadAllAndSort(f, o, st, rdev, anc, oc)
    ELSE [st |-> st, oc |-> oc]

\* the DirState literal of DirState::new and DirState::new_once
DirStateFresh(o, depth, rd) ==
    [depth |-> depth, rd |-> rd, content |-> <<>>, current_pos |-> NoPos,
     pass |-> GetInitialPass(o), position |-> "OpenDir"]

\* DirState::new_once
DirStateNewOnce(f, o, raw, depth, rdev, anc, oc) ==
    DirStateInit(f, o, DirStateFresh(o, depth, ReadDirNewOnce(raw)), rdev, anc, oc)

\* DirState::new: ok is FALSE when read_dir fails
DirStateNew(f, o, parent, depth, rdev, anc, oc) ==
    IF ~FsReadDirOk(f, RawNode(parent))
    THEN [ok |-> FALSE, st |-> DirStateFresh(o, depth, RdClosed), oc |-> oc, err |-> IoErr]
    ELSE With(DirStateInit(f, o, DirStateFresh(o, depth, ReadDirNew(f, parent)),
                           rdev, anc, oc + 1),
              LAMBDA i : [ok |-> TRUE, st |-> i.st, oc |-> i.oc, err |-> NoErr])

\* DirContent::get_next_rec: found is FALSE when it returns None
RECURSIVE GetNextRec(_, _, _, _, _, _)
GetNextRec(f, o, st, rdev, anc, oc) ==
    LET next_pos == IF st.current_pos # NoPos THEN st.current_pos + 1 ELSE 0
    IN  IF next_pos < Len(st.content)
        THEN [st |-> [st EXCEPT !.current_pos = next_pos], found |-> TRUE,
              first_pass |-> st.content[next_pos + 1].first_pass,
              can_be_yielded |-> CanBeYielded(st.content[next_pos + 1]),
              oc |-> oc]
        ELSE With(ReadDirNext(f, st.rd, oc), LAMBDA n :
            IF n.none
            THEN [st |-> [st EXCEPT !.rd = n.rd], found |-> FALSE,
                  first_pass |-> FALSE, can_be_yielded |-> FALSE, oc |-> n.oc]
            ELSE With(DirEntryRecordNew(f, o, n.r, st.depth, rdev, anc), LAMBDA rec :
                IF ~rec.some
                THEN GetNextRec(f, o, [st EXCEPT !.rd = n.rd], rdev, anc, n.oc)
                ELSE [st |-> [st EXCEPT !.rd = n.rd,
                                        !.content = Append(st.content, rec.rec),
                                        !.current_pos = Len(st.content)],
                      found |-> TRUE,
                      first_pass |-> rec.rec.first_pass,
                      can_be_yielded |-> CanBeYielded(rec.rec),
                      oc |-> n.oc]))

\* rewind that leaves the cursor where it is
RewindNot(st) == st

\* DirContent::rewind
Rewind(st) == [st EXCEPT !.current_pos = NoPos]

\* DirState::shift_next: ok is its result
RECURSIVE ShiftNext(_, _, _, _, _, _)
ShiftNext(f, o, st, rdev, anc, oc) ==
    With(GetNextRec(f, o, st, rdev, anc, oc), LAMBDA g :
        LET valid_pass == CASE st.pass = "Entire" -> TRUE
                            [] st.pass = "First" -> g.first_pass
                            [] st.pass = "Second" -> ~g.first_pass
        IN  IF g.found
            THEN IF valid_pass /\ g.can_be_yielded
                 THEN [st |-> g.st, ok |-> TRUE, oc |-> g.oc]
                 ELSE ShiftNext(f, o, g.st, rdev, anc, g.oc)
            ELSE IF st.pass = "First"
            THEN ShiftNext(f, o, Rewind([g.st EXCEPT !.pass = "Second"]), rdev, anc, g.oc)
            ELSE [st |-> [g.st EXCEPT !.position = "CloseDir"], ok |-> FALSE,
                  oc |-> g.oc])

\* next_position without the early return at CloseDir
NextPositionAlways(f, o, st, rdev, anc, oc) ==
    With(ShiftNext(f, o, st, rdev, anc, oc), LAMBDA s :
        IF s.ok THEN [st |-> [s.st EXCEPT !.position = "Entry"], oc |-> s.oc]
        ELSE [st |-> [s.st EXCEPT !.position = "CloseDir"], oc |-> s.oc])

\* DirState::next_position
NextPosition(f, o, st, rdev, anc, oc) ==
    IF st.position = "CloseDir" THEN [st |-> st, oc |-> oc]
    ELSE With(ShiftNext(f, o, st, rdev, anc, oc), LAMBDA s :
             IF s.ok THEN [st |-> [s.st EXCEPT !.position = "Entry"], oc |-> s.oc]
             ELSE [st |-> [s.st EXCEPT !.position = "CloseDir"], oc |-> s.oc])

\* DirContent::get_current_rec
GetCurrentRec(st) == st.content[st.current_pos + 1]

\* DirState::get_current_position: "OpenDir", "Entry", "Error" or "CloseDir"
GetCurrentPosition(st) ==
    IF st.position = "Entry"
    THEN IF GetCurrentRec(st).ok THEN "Entry" ELSE "Error"
    ELSE st.position

\* DirState::skip_all
SkipAll(st) == [st EXCEPT !.position = "CloseDir"]

\* the items DirState::clone_all_content collects once everything is loaded
CloneFilter(f, filter, content) ==
    IF filter = "SkipAll" THEN <<>>
    ELSE SelectSeq(content,
            LAMBDA rec : /\ rec.ok
                         /\ filter = "DirsOnly" => rec.flat.is_dir
                         /\ filter = "FilesOnly" => ~rec.flat.is_dir
                         /\ RawMakeContentItemOk(f, rec.flat.raw))

\* clone_all_content that filters by the state's own content_filter
CloneAllContentOwnFilter(f, o, filter, st, rdev, anc, oc) ==
    With(LoadAll(f, o, st, rdev, anc, oc), LAMBDA l :
        [st |-> l.st, oc |-> l.oc,
         content |-> CloneFilter(f, o.content_filter, l.st.content)])

\* DirState::clone_all_content
CloneAllContent(f, o, filter, st, rdev, anc, oc) ==
    With(LoadAll(f, o, st, rdev, anc, oc), LAMBDA l :
        [st |-> l.st, oc |-> l.oc, content |-> CloneFilter(f, filter, l.st.content)])

-----------------------------------------------------------------------------
(* Positions: what next() returns.  type is "Entry", "Error", "OpenDir",   *)
(* "OpenDirWithContent" or "CloseDir" for Some(position), "None" for None, *)
(* "Panic" when the call panicked (note says where), "Continue" while the  *)
(* loop of the call is running and "Start" before the first call.          *)

NoItem == [path |-> NoPath, follow_link |-> FALSE, is_dir |-> FALSE, depth |-> 0]

\* process_direntry that stores the depth of the entry's children
ItemOneDeeper(flat, depth) ==
    [path |-> flat.raw.path, follow_link |-> flat.raw.follow_link,
     is_dir |-> flat.is_dir, depth |-> depth + 1]

\* the DirEntry the content processor makes (process_direntry)
Item(flat, depth) ==
    [path |-> flat.raw.path, follow_link |-> flat.raw.follow_link,
     is_dir |-> flat.is_dir, depth |-> depth]

Ev(type) ==
    [type |-> type, item |-> NoItem, err |-> NoErr, depth |-> 0,
     content |-> <<>>, note |-> ""]

EvEntry(item) == [Ev("Entry") EXCEPT !.item = item]
\* Error::from_inner
EvError(err, depth) == [Ev("Error") EXCEPT !.err = err, !.depth = depth]
EvOpenDir(parent) == [Ev("OpenDir") EXCEPT !.item = parent]
EvOpenDirWithContent(parent, content) ==
    [Ev("OpenDirWithContent") EXCEPT !.item = parent, !.content = content]
EvPanic(note) == [Ev("Panic") EXCEPT !.note = note]

Yielded == {"Entry", "Error", "OpenDir", "OpenDirWithContent", "CloseDir"}

-----------------------------------------------------------------------------
(* The engine: WalkDirIterator of src/walk/walk.rs.  The operators below   *)
(* work on a record e of the iterator's fields.                            *)

Eng ==
    [fs |-> fs, opts |-> opts, root |-> root, states |-> states,
     transition_state |-> transition_state, ancestors |-> ancestors,
     opened_count |-> opened_count, root_device |-> root_device,
     ret |-> ret, trace |-> trace]

FSOf(e) == e.fs

\* return Some(position)
Yield(e, ev) == [e EXCEPT !.ret = ev, !.trace = Append(e.trace, ev)]
\* continue: another iteration of the loop
Continue(e) == [e EXCEPT !.ret = Ev("Continue")]
\* a failed assert!, unwrap, expect or an unreachable!
Panic(e, note) == [e EXCEPT !.ret = EvPanic(note)]

\* the assert_eq! of do_debug_checks: opened_count is the number of states
\* whose handle is open
DoDebugChecksOk(e) ==
    e.opened_count = Cardinality({i \in 1..Len(e.states) : IsOpen(e.states[i])})

\* debug!(self.do_debug_checks()); return Some(position)
CheckedYield(e, ev) ==
    IF DoDebugChecksOk(e) THEN Yield(e, ev)
    ELSE Panic(e, "do_debug_checks: opened_count == real_count")

\* cur_depth of next()
CurDepth(e) == Len(e.states) - 1
\* cur_state of next()
CurState(e) == e.states[Len(e.states)]

SetCurState(e, st) == [e EXCEPT !.states[Len(e.states)] = st]

\* cur_state.next_position(...) that leaves opened_count as it was
CurNextPositionKeepCount(e) ==
    SetCurState(e, NextPosition(FSOf(e), e.opts, CurState(e), e.root_device,
                                e.ancestors, e.opened_count).st)

\* cur_state.next_position(...) with process_dent!(self, cur_depth)
CurNextPosition(e) ==
    With(NextPosition(FSOf(e), e.opts, CurState(e), e.root_device,
                      e.ancestors, e.opened_count),
         LAMBDA n : [SetCurState(e, n.st) EXCEPT !.opened_count = n.oc])

\* WalkDirIterator::push_dir_2
PushDir2(e, st, has_ancestor, ancestor) ==
    [e EXCEPT !.ancestors = IF has_ancestor THEN Append(e.ancestors, ancestor)
                            ELSE e.ancestors,
              !.states = Append(e.states, st)]

\* WalkDirIterator::push_root
PushRoot(e, rootraw) ==
    With(DirStateNewOnce(FSOf(e), e.opts, rootraw, 0, e.root_device,
                         e.ancestors, e.opened_count),
         LAMBDA n : PushDir2([e EXCEPT !.opened_count = n.oc], n.st, FALSE, NoErr))

\* WalkDirIterator::init, called by next() when root is Some
DoInit(e) ==
    With(RawFromPath(FSOf(e)), LAMBDA r :
        LET e1 == [e EXCEPT !.root = FALSE]
            dev == IF e.opts.same_file_system THEN FsDeviceNum(FSOf(e), RawNode(r.raw))
                   ELSE e.root_device
        IN  IF ~r.ok THEN CheckedYield(e1, EvError(r.err, 0))
            ELSE IF e.opts.same_file_system /\ dev = NoDevice
            THEN CheckedYield(e1, EvError(IoErr, 0))
            ELSE Continue(PushRoot([e1 EXCEPT !.root_device = dev], r.raw)))

\* the index of the shallowest state whose handle is open (0: there is none)
FirstOpen(sts) ==
    IF \E i \in 1..Len(sts) : IsOpen(sts[i])
    THEN CHOOSE i \in 1..Len(sts) : IsOpen(sts[i]) /\ \A j \in 1..(i - 1) : ~IsOpen(sts[j])
    ELSE 0

\* check_max_open without the draining of the shallowest open handle
CheckMaxOpenNoDrain(e) == e

\* WalkDirIterator::check_max_open (max_open = 0 stands for None)
CheckMaxOpen(e) ==
    IF e.opts.max_open = 0 THEN e
    ELSE IF e.opened_count < e.opts.max_open THEN e
    ELSE IF e.opened_count # e.opts.max_open
    THEN Panic(e, "check_max_open: opened_count == max_open")
    ELSE IF e.opened_count <= 0
    THEN Panic(e, "check_max_open: opened_count > 0")
    ELSE With(FirstOpen(e.states), LAMBDA i :
        IF i = 0 THEN Panic(e, "check_max_open: unreachable")
        ELSE With(LoadAll(FSOf(e), e.opts, e.states[i], e.root_device, e.ancestors,
                          e.opened_count),
                  LAMBDA l : [e EXCEPT !.states[i] = l.st, !.opened_count = l.oc]))

\* the iteration of next() with transition_state CloseOldestBeforePushDown
DoCloseOldest(e) ==
    With(CheckMaxOpen(e), LAMBDA c :
        IF c.ret.type = "Panic" THEN c
        ELSE Continue([c EXCEPT !.transition_state = "BeforePushDown"]))

\* WalkDirIterator::push_dir_1: the new state and its ancestor, or the error;
\* oc is the counter after the call in both cases
PushDir1(f, o, flat, new_depth, rdev, anc, oc) ==
    With(DirStateNew(f, o, flat.raw, new_depth, rdev, anc, oc), LAMBDA n :
        With(AncestorNew(f, flat.raw), LAMBDA a :
            IF ~n.ok
            THEN [ok |-> FALSE, st |-> n.st, has_ancestor |-> FALSE, ancestor |-> a,
                  err |-> n.err, oc |-> n.oc]
            ELSE IF o.follow_links
            THEN IF a.ok
                 THEN [ok |-> TRUE, st |-> n.st, has_ancestor |-> TRUE, ancestor |-> a,
                       err |-> NoErr, oc |-> n.oc]
                 ELSE [ok |-> FALSE, st |-> n.st, has_ancestor |-> FALSE, ancestor |-> a,
                       err |-> IoErr, oc |-> n.oc]
            ELSE [ok |-> TRUE, st |-> n.st, has_ancestor |-> FALSE, ancestor |-> a,
                  err |-> NoErr, oc |-> n.oc]))

\* WalkDirIterator::pop_dir
PopDir(e) ==
    LET last_state == CurState(e)
        e1 == [e EXCEPT !.states = SubSeq(e.states, 1, Len(e.states) - 1),
                        !.opened_count = ReadDirOnDrop(last_state.rd, e.opened_count)]
        e2 == IF e.opts.follow_links
              THEN [e1 EXCEPT !.ancestors = SubSeq(e.ancestors, 1, Len(e.ancestors) - 1)]
              ELSE e1
    IN  IF e.opts.follow_links /\ e.ancestors = <<>>
        THEN Panic(e1, "pop_dir: list/path stacks out of sync")
        ELSE IF ~DoDebugChecksOk(e2)
        THEN Panic(e2, "do_debug_checks: opened_count == real_count")
        ELSE e2

\* skip_current_dir that leaves the transition state as it is
DoSkipCurrentDirKeep(e) ==
    IF e.states # <<>> THEN SetCurState(e, SkipAll(CurState(e))) ELSE e

\* WalkDirIterator::skip_current_dir
DoSkipCurrentDir(e) ==
    IF e.states # <<>>
    THEN [SetCurState(e, SkipAll(CurState(e))) EXCEPT !.transition_state = "None"]
    ELSE e

\* WalkDirIterator::get_current_dir_content: the iterator after the call and
\* the collection it returns
DoGetCurrentDirContent(e, filter) ==
    IF e.states = <<>>
    THEN [e |-> Panic(e, "get_current_dir_content: states.last_mut().unwrap()"),
          content |-> <<>>]
    ELSE With(CloneAllContent(FSOf(e), e.opts, filter, CurState(e), e.root_device,
                              e.ancestors, e.opened_count),
              LAMBDA c :
             [e |-> [SetCurState(e, c.st) EXCEPT !.opened_count = c.oc],
              content |-> [i \in 1..Len(c.content) |->
                              Item(c.content[i].flat, CurState(e).depth)]])

\* get_parent_dent of next(): ok is FALSE where it panics, note says where
GetParentDent(e, cur_depth) ==
    LET prev_state == e.states[cur_depth]
    IN  IF GetCurrentPosition(prev_state) # "Entry"
        THEN [ok |-> FALSE, item |-> NoItem, note |-> "get_parent_dent: unreachable"]
        ELSE IF ~RawMakeContentItemOk(FSOf(e), GetCurrentRec(prev_state).flat.raw)
        THEN [ok |-> FALSE, item |-> NoItem,
              note |-> "get_parent_dent: make_content_item(..).unwrap()"]
        ELSE [ok |-> TRUE, item |-> Item(GetCurrentRec(prev_state).flat, cur_depth - 1),
              note |-> ""]

-----------------------------------------------------------------------------
(* The iterations of the loop of next(), by the position of the top state *)

\* allow_yield without the test of min_depth
AllowYieldAnyDepth(e, rec) ==
    /\ ~rec.hidden
    /\ (IF rec.flat.loop_link # NoLoop THEN e.opts.yield_loop_links ELSE TRUE)

\* allow_yield without the test of hidden
AllowYieldHidden(e, rec) ==
    /\ CurDepth(e) >= e.opts.min_depth
    /\ (IF rec.flat.loop_link # NoLoop THEN e.opts.yield_loop_links ELSE TRUE)

\* allow_yield of next()
AllowYield(e, rec) ==
    /\ ~rec.hidden
    /\ CurDepth(e) >= e.opts.min_depth
    /\ (IF rec.flat.loop_link # NoLoop THEN e.opts.yield_loop_links ELSE TRUE)

\* allow_push without the test of max_depth
AllowPushAnyDepth(e, rec) == RawAllowPush(FSOf(e), rec.flat.raw)

\* allow_push of next()
AllowPush(e, rec) ==
    CurDepth(e) < e.opts.max_depth /\ RawAllowPush(FSOf(e), rec.flat.raw)

\* InnerPositionWithData::OpenDir
DoOpenDir(e) ==
    LET cur_depth == CurDepth(e)
        parent == GetParentDent(e, cur_depth)
    IN  IF e.transition_state # "None"
        THEN Panic(e, "OpenDir: transition_state == None")
        ELSE With(CurNextPosition(e), LAMBDA e1 :
            IF cur_depth = 0 THEN Continue(e1)
            ELSE IF e.opts.yield_open_dir_with_content
            THEN With(CloneAllContent(FSOf(e), e.opts,
                                      e.opts.open_dir_with_content_filter, CurState(e1),
                                      e.root_device, e.ancestors, e1.opened_count),
                      LAMBDA c :
                     With([SetCurState(e1, c.st) EXCEPT !.opened_count = c.oc], LAMBDA e2 :
                         IF ~parent.ok THEN Panic(e2, parent.note)
                         ELSE CheckedYield(e2,
                                  EvOpenDirWithContent(parent.item,
                                      [i \in 1..Len(c.content) |->
                                          Item(c.content[i].flat, cur_depth)]))))
            ELSE IF ~parent.ok THEN Panic(e1, parent.note)
            ELSE CheckedYield(e1, EvOpenDir(parent.item)))

\* WalkDirIterator::make_loop_error
MakeLoopError(anc, depth, child) ==
    IF depth + 1 \in 1..Len(anc)
    THEN [ok |-> TRUE, err |-> LoopErr(anc[depth + 1].path, child)]
    ELSE [ok |-> FALSE, err |-> NoErr]

\* yield_rflat! without the test of contents_first
YieldRflatAlways(e, rec) ==
    IF AllowYield(e, rec)
    THEN IF RawMakeContentItemOk(FSOf(e), rec.flat.raw)
         THEN Yield(e, EvEntry(Item(rec.flat, CurDepth(e))))
         ELSE Continue([e EXCEPT !.transition_state = "AfterPopUp"])
    ELSE Continue(e)

\* yield_rflat! whose failure does not cancel the descent
YieldRflatNoCancel(e, rec) ==
    IF ~e.opts.contents_first /\ AllowYield(e, rec)
    THEN IF RawMakeContentItemOk(FSOf(e), rec.flat.raw)
         THEN Yield(e, EvEntry(Item(rec.flat, CurDepth(e))))
         ELSE Continue(e)
    ELSE Continue(e)

\* yield_rflat! at the end of the first step of a directory entry
YieldRflat(e, rec) ==
    IF ~e.opts.contents_first /\ AllowYield(e, rec)
    THEN IF RawMakeContentItemOk(FSOf(e), rec.flat.raw)
         THEN Yield(e, EvEntry(Item(rec.flat, CurDepth(e))))
         ELSE Continue([e EXCEPT !.transition_state = "AfterPopUp"])
    ELSE Continue(e)

\* a directory entry, TransitionState::None (any other state but
\* BeforePushDown and AfterPopUp is unreachable!())
DoEntryDirFirst(e) ==
    LET rec == GetCurrentRec(CurState(e))
        err == MakeLoopError(e.ancestors, rec.flat.loop_link, rec.flat.raw.path)
    IN  IF e.transition_state # "None"
        THEN Panic(e, "Entry: unreachable transition_state")
        ELSE IF AllowPush(e, rec)
        THEN IF rec.flat.loop_link # NoLoop
             THEN IF ~e.opts.yield_loop_links
                  THEN IF err.ok
                       THEN CheckedYield([e EXCEPT !.transition_state = "AfterPopUp"],
                                         EvError(err.err, CurDepth(e)))
                       ELSE Panic([e EXCEPT !.transition_state = "AfterPopUp"],
                                  "make_loop_error: ancestors.get(depth).unwrap()")
                  ELSE Continue([e EXCEPT !.transition_state = "AfterPopUp"])
             ELSE YieldRflat([e EXCEPT !.transition_state = "CloseOldestBeforePushDown"], rec)
        ELSE YieldRflat([e EXCEPT !.transition_state = "AfterPopUp"], rec)

\* the BeforePushDown step that does not return the Error of push_dir_1
DoEntryDirPushDownSilent(e) ==
    LET rec == GetCurrentRec(CurState(e))
    IN  With(PushDir1(FSOf(e), e.opts, rec.flat, CurDepth(e) + 1, e.root_device,
                      e.ancestors, e.opened_count),
             LAMBDA p :
            LET e1 == [e EXCEPT !.transition_state = "None", !.opened_count = p.oc]
            IN  IF p.ok THEN Continue(PushDir2(e1, p.st, p.has_ancestor, p.ancestor))
                ELSE Continue([e1 EXCEPT !.transition_state = "AfterPopUp"]))

\* a directory entry, TransitionState::BeforePushDown
DoEntryDirPushDown(e) ==
    LET rec == GetCurrentRec(CurState(e))
    IN  IF rec.flat.loop_link # NoLoop
        THEN Panic([e EXCEPT !.transition_state = "None"],
                   "push_dir_1: loop_link.is_none()")
        ELSE With(PushDir1(FSOf(e), e.opts, rec.flat, CurDepth(e) + 1, e.root_device,
                           e.ancestors, e.opened_count),
                  LAMBDA p :
            LET e1 == [e EXCEPT !.transition_state = "None", !.opened_count = p.oc]
            IN  IF p.ok THEN Continue(PushDir2(e1, p.st, p.has_ancestor, p.ancestor))
                ELSE CheckedYield([e1 EXCEPT !.transition_state = "AfterPopUp"],
                                  EvError(p.err, CurDepth(e))))

\* next_and_yield_rflat!
NextAndYieldRflat(e, rec) ==
    With(CurNextPosition(e), LAMBDA n :
        IF RawMakeContentItemOk(FSOf(e), rec.flat.raw)
        THEN Yield(n, EvEntry(Item(rec.flat, CurDepth(e))))
        ELSE Continue(n))

\* a directory entry, TransitionState::AfterPopUp
DoEntryDirAfterPopUp(e) ==
    LET rec == GetCurrentRec(CurState(e))
        e1 == [e EXCEPT !.transition_state = "None"]
    IN  IF e.opts.contents_first /\ AllowYield(e, rec)
        THEN NextAndYieldRflat(e1, rec)
        ELSE Continue(CurNextPosition(e1))

\* the step of a non-directory entry that does not return the entry
DoEntryFileSilent(e) == Continue(CurNextPosition(e))

\* a non-directory entry
DoEntryFile(e) ==
    LET rec == GetCurrentRec(CurState(e))
    IN  IF e.transition_state # "None"
        THEN Panic(e, "non-dir entry: transition_state == None")
        ELSE IF AllowYield(e, rec) THEN NextAndYieldRflat(e, rec)
        ELSE Continue(CurNextPosition(e))

\* the Error step that does not return the Error
DoErrorRecSilent(e) == Continue(CurNextPosition(e))

\* InnerPositionWithData::Error
DoErrorRec(e) ==
    LET rec == GetCurrentRec(CurState(e))
    IN  IF e.transition_state # "None"
        THEN Panic(e, "Error: transition_state == None")
        ELSE CheckedYield(CurNextPosition(e), EvError(rec.err, CurState(e).depth))

\* a CloseDir at the root that counts a handle on every call
DoCloseDirRootCounting(e) ==
    [e EXCEPT !.ret = Ev("None"), !.opened_count = @ + 1]

\* InnerPositionWithData::CloseDir at the root: return None
DoCloseDirRoot(e) == [e EXCEPT !.ret = Ev("None")]

\* the CloseDir step without the CloseDir position returned
DoCloseDirSilent(e) == Continue([e EXCEPT !.transition_state = "BeforePopUp"])

\* InnerPositionWithData::CloseDir, TransitionState::None (any other state
\* but BeforePopUp is unreachable!())
DoCloseDirYield(e) ==
    IF e.transition_state # "None"
    THEN Panic(e, "CloseDir: unreachable transition_state")
    ELSE CheckedYield([e EXCEPT !.transition_state = "BeforePopUp"], Ev("CloseDir"))

\* InnerPositionWithData::CloseDir, TransitionState::BeforePopUp
DoCloseDirPopUp(e) ==
    With(PopDir(e), LAMBDA p :
        IF p.ret.type = "Panic" THEN p
        ELSE Continue([p EXCEPT !.transition_state = "AfterPopUp"]))

\* states.len() == 0 after the root was taken: unreachable!()
DoNoStates(e) == Panic(e, "next: states.len() == 0")

-----------------------------------------------------------------------------
(* Which iteration runs: the tests of next() in their order *)

Running(e) == e.ret.type \notin {"Panic"}

AtInit(e) == Running(e) /\ e.root
AtNoStates(e) == Running(e) /\ ~e.root /\ e.states = <<>>
InLoop(e) == Running(e) /\ ~e.root /\ e.states # <<>>
AtCloseOldest(e) == InLoop(e) /\ e.transition_state = "CloseOldestBeforePushDown"
AtPosition(e, pos) ==
    /\ InLoop(e)
    /\ e.transition_state # "CloseOldestBeforePushDown"
    /\ GetCurrentPosition(CurState(e)) = pos
AtEntryDir(e) == AtPosition(e, "Entry") /\ GetCurrentRec(CurState(e)).flat.is_dir
AtEntryDirFirst(e) ==
    AtEntryDir(e) /\ e.transition_state \notin {"BeforePushDown", "AfterPopUp"}
AtEntryDirPushDown(e) == AtEntryDir(e) /\ e.transition_state = "BeforePushDown"
AtEntryDirAfterPopUp(e) == AtEntryDir(e) /\ e.transition_state = "AfterPopUp"
AtEntryFile(e) == AtPosition(e, "Entry") /\ ~GetCurrentRec(CurState(e)).flat.is_dir
AtCloseDirRoot(e) == AtPosition(e, "CloseDir") /\ CurDepth(e) = 0
AtCloseDirYield(e) ==
    AtPosition(e, "CloseDir") /\ CurDepth(e) # 0 /\ e.transition_state # "BeforePopUp"
AtCloseDirPopUp(e) ==
    AtPosition(e, "CloseDir") /\ CurDepth(e) # 0 /\ e.transition_state = "BeforePopUp"

\* one iteration of the loop of next()
Iteration(e) ==
    CASE AtInit(e) -> DoInit(e)
      [] AtNoStates(e) -> DoNoStates(e)
      [] AtCloseOldest(e) -> DoCloseOldest(e)
      [] AtPosition(e, "OpenDir") -> DoOpenDir(e)
      [] AtEntryDirFirst(e) -> DoEntryDirFirst(e)
      [] AtEntryDirPushDown(e) -> DoEntryDirPushDown(e)
      [] AtEntryDirAfterPopUp(e) -> DoEntryDirAfterPopUp(e)
      [] AtEntryFile(e) -> DoEntryFile(e)
      [] AtPosition(e, "Error") -> DoErrorRec(e)
      [] AtCloseDirRoot(e) -> DoCloseDirRoot(e)
      [] AtCloseDirYield(e) -> DoCloseDirYield(e)
      [] AtCloseDirPopUp(e) -> DoCloseDirPopUp(e)

\* next() called again and again until it returns None or panics
RECURSIVE RunToEnd(_)
RunToEnd(e) ==
    IF e.ret.type \in {"None", "Panic"} THEN e ELSE RunToEnd(Iteration(e))

-----------------------------------------------------------------------------
(* The state machine *)

Apply(e) ==
    /\ root' = e.root
    /\ states' = e.states
    /\ transition_state' = e.transition_state
    /\ ancestors' = e.ancestors
    /\ opened_count' = e.opened_count
    /\ root_device' = e.root_device
    /\ ret' = e.ret
    /\ trace' = e.trace
    /\ UNCHANGED <<fs, opts, predicate>>

Contents == {"None", "FilesOnly", "DirsOnly", "SkipAll"}
Orders == {"None", "FilesFirst", "DirsFirst"}

\* the options the families below vary: WalkDirOptionsImmut::default with
\* the sorter slot (FALSE: no sort_by), and with max_open, which every family
\* sets, at 0 (what WalkDirBuilder::max_open(0) stores: no limit)
BaseOpts ==
    [same_file_system |-> FALSE, follow_links |-> FALSE, yield_loop_links |-> FALSE,
     max_open |-> 0, min_depth |-> 0, max_depth |-> DepthUnlimited,
     contents_first |-> FALSE, content_filter |-> "None", content_order |-> "None",
     yield_open_dir_with_content |-> FALSE, open_dir_with_content_filter |-> "None",
     sorter |-> FALSE]

\* the option records the builder can produce that the model walks with
LinkOpts ==
    {[BaseOpts EXCEPT !.follow_links = TRUE, !.yield_loop_links = y,
                         !.max_open = k, !.contents_first = cf, !.sorter = s,
                         !.max_depth = md, !.same_file_system = sfs]
        : y \in BOOLEAN, k \in 0..MaxOpen, cf \in BOOLEAN, s \in BOOLEAN,
          md \in {MaxDepthOpt, DepthUnlimited}, sfs \in BOOLEAN}

TreeOpts ==
    {[BaseOpts EXCEPT !.max_open = k, !.contents_first = cf, !.sorter = s,
                         !.content_order = co, !.content_filter = flt,
                         !.min_depth = mn, !.max_depth = md,
                         !.yield_open_dir_with_content = wc]
        : k \in 0..MaxOpen, cf \in BOOLEAN, s \in BOOLEAN, co \in Orders,
          flt \in Contents, mn \in 0..MaxMinDepth,
          md \in (MaxMinDepth..MaxDepthOpt) \cup {DepthUnlimited}, wc \in BOOLEAN}

\* the option records with yield_open_dir_with_content and every filter of it
ContentOpts ==
    {[BaseOpts EXCEPT !.yield_open_dir_with_content = TRUE,
                         !.open_dir_with_content_filter = of, !.content_filter = flt,
                         !.max_open = k, !.contents_first = cf, !.sorter = s]
        : of \in Contents, flt \in Contents, k \in 0..1, cf \in BOOLEAN,
          s \in BOOLEAN}

\* the option records with yield_open_dir_with_content and followed symlinks
ContentLinkOpts ==
    {[BaseOpts EXCEPT !.yield_open_dir_with_content = TRUE,
                         !.open_dir_with_content_filter = of, !.follow_links = TRUE,
                         !.yield_loop_links = y, !.max_open = k]
        : of \in {"None", "DirsOnly"}, y \in BOOLEAN, k \in 0..MaxOpen}

\* the option records skip_current_dir is tried with
SkipOpts ==
    {[BaseOpts EXCEPT !.follow_links = fl, !.max_open = k, !.contents_first = cf,
                         !.sorter = s]
        : fl \in BOOLEAN, k \in 1..MaxOpen, cf \in BOOLEAN, s \in BOOLEAN}

\* WalkDirIterator::new, as a record of the fields
NewEngine(f, o) ==
    [fs |-> f, opts |-> o, root |-> TRUE, states |-> <<>>, transition_state |-> "None",
     ancestors |-> <<>>, opened_count |-> 0, root_device |-> NoDevice,
     ret |-> Ev("Start"), trace |-> <<>>]

\* WalkDirIterator::new
InitEngine ==
    /\ root = TRUE
    /\ states = <<>>
    /\ transition_state = "None"
    /\ ancestors = <<>>
    /\ opened_count = 0
    /\ root_device = NoDevice
    /\ ret = Ev("Start")
    /\ trace = <<>>
    /\ skips = 0

Init ==
    /\ fs \in FileSystems
    /\ opts \in LinkOpts \cup TreeOpts \cup ContentOpts \cup ContentLinkOpts
    /\ predicate = {}
    /\ InitEngine

Init0 == AtInit(Eng) /\ Apply(DoInit(Eng)) /\ UNCHANGED skips
NoStates == AtNoStates(Eng) /\ Apply(DoNoStates(Eng)) /\ UNCHANGED skips
CloseOldest == AtCloseOldest(Eng) /\ Apply(DoCloseOldest(Eng)) /\ UNCHANGED skips
OpenDir == AtPosition(Eng, "OpenDir") /\ Apply(DoOpenDir(Eng)) /\ UNCHANGED skips
EntryDirFirst == AtEntryDirFirst(Eng) /\ Apply(DoEntryDirFirst(Eng)) /\ UNCHANGED skips
EntryDirPushDown ==
    AtEntryDirPushDown(Eng) /\ Apply(DoEntryDirPushDown(Eng)) /\ UNCHANGED skips
EntryDirAfterPopUp ==
    AtEntryDirAfterPopUp(Eng) /\ Apply(DoEntryDirAfterPopUp(Eng)) /\ UNCHANGED skips
EntryFile == AtEntryFile(Eng) /\ Apply(DoEntryFile(Eng)) /\ UNCHANGED skips
ErrorRec == AtPosition(Eng, "Error") /\ Apply(DoErrorRec(Eng)) /\ UNCHANGED skips
CloseDirRoot == AtCloseDirRoot(Eng) /\ Apply(DoCloseDirRoot(Eng)) /\ UNCHANGED skips
CloseDirYield == AtCloseDirYield(Eng) /\ Apply(DoCloseDirYield(Eng)) /\ UNCHANGED skips
CloseDirPopUp == AtCloseDirPopUp(Eng) /\ Apply(DoCloseDirPopUp(Eng)) /\ UNCHANGED skips

\* skip_current_dir, called between two calls of next()
SkipCurrentDir ==
    /\ ret.type \notin {"Continue", "Panic"}
    /\ skips < MaxSkips
    /\ Apply(DoSkipCurrentDir(Eng))
    /\ skips' = skips + 1

\* get_current_dir_content, called between two calls of next()
GetCurrentDirContent ==
    /\ ret.type \notin {"Continue", "Panic"}
    /\ \E filter \in Contents : Apply(DoGetCurrentDirContent(Eng, filter).e)
    /\ UNCHANGED skips

\* the calls of next()
Next ==
    \/ Init0
    \/ NoStates
    \/ CloseOldest
    \/ OpenDir
    \/ EntryDirFirst
    \/ EntryDirPushDown
    \/ EntryDirAfterPopUp
    \/ EntryFile
    \/ ErrorRec
    \/ CloseDirRoot
    \/ CloseDirYield
    \/ CloseDirPopUp

Spec == Init /\ [][Next]_vars

\* runs in which the caller also calls skip_current_dir and
\* get_current_dir_content
InitSkip ==
    /\ fs \in FileSystems
    /\ opts \in SkipOpts
    /\ predicate = {}
    /\ InitEngine

NextSkip == Next \/ SkipCurrentDir \/ GetCurrentDirContent

SpecSkip == InitSkip /\ [][NextSkip]_vars

-----------------------------------------------------------------------------
(* What the properties speak of *)

\* the file systems that are trees without symlinks in which every call succeeds
PlainTrees == {FSTree, FSDevices, FSFileRoot}
\* the file systems with symlinks
LinkTrees == {FSLoopSelf, FSDrain, FSLinks}

\* the caller has the control: next() has returned, or was not called yet
BetweenTicks == ret.type \in Yielded \cup {"None", "Start"}

\* the states of the stack whose handle is Opened
OpenedStates == {i \in 1..Len(states) : IsOpen(states[i])}

IsOpenEv(ev) == ev.type \in {"OpenDir", "OpenDirWithContent"}
IsLoopErr(ev) == ev.type = "Error" /\ ev.err.kind = "Loop"

\* the number of directories open before the i-th position of tr
Level(tr, i) ==
    Cardinality({j \in 1..(i - 1) : IsOpenEv(tr[j])})
    - Cardinality({j \in 1..(i - 1) : tr[j].type = "CloseDir"})

\* the Open* position of the directory the i-th position of tr lies in
Opener(tr, i) ==
    CHOOSE j \in 1..(i - 1) :
        /\ IsOpenEv(tr[j])
        /\ Level(tr, j) = Level(tr, i) - 1
        /\ \A k \in (j + 1)..(i - 1) : ~(IsOpenEv(tr[k]) /\ Level(tr, k) = Level(tr, j))

ParentPath(p) == SubSeq(p, 1, Len(p) - 1)

IsPrefix(p, q) == Len(p) <= Len(q) /\ SubSeq(q, 1, Len(p)) = p

\* tr is a well-nested stream of positions
WellNested(tr) ==
    /\ \A i \in 1..(Len(tr) + 1) : Level(tr, i) >= 0
    /\ Level(tr, Len(tr) + 1) = 0
    /\ \A i \in 1..Len(tr) :
          /\ tr[i].type = "Error" => tr[i].depth = Level(tr, i)
          /\ tr[i].type = "Entry" \/ IsOpenEv(tr[i]) =>
                /\ tr[i].item.depth = Level(tr, i)
                /\ Len(tr[i].item.path) = Level(tr, i) + 1
                /\ Level(tr, i) >= 1 =>
                      ParentPath(tr[i].item.path) = tr[Opener(tr, i)].item.path
          /\ tr[i].type = "CloseDir" => Level(tr, i) >= 1
    /\ \A i, j \in 1..Len(tr) :
          IsOpenEv(tr[i]) /\ IsOpenEv(tr[j]) /\ i # j => tr[i].item.path # tr[j].item.path

\* the paths of the entries of the tree below (and with) path p
RECURSIVE PathsFrom(_, _)
PathsFrom(f, p) ==
    {p} \cup UNION {PathsFrom(f, Append(p, f.kids[Last(p)][i]))
                       : i \in 1..Len(f.kids[Last(p)])}

\* the entry at path p is in the depth window and passes content_filter
Selected(f, o, p) ==
    /\ o.min_depth <= Len(p) - 1
    /\ Len(p) - 1 <= o.max_depth
    /\ CASE o.content_filter = "None" -> TRUE
         [] o.content_filter = "DirsOnly" -> f.kind[Last(p)] = "dir"
         [] o.content_filter = "FilesOnly" -> f.kind[Last(p)] # "dir"
         [] o.content_filter = "SkipAll" -> FALSE

Entries(tr) == SelectSeq(tr, LAMBDA ev : ev.type = "Entry")

\* the loop-link records of the directories whose entries have all been gone through
DoneLoopLinks ==
    UNION {{states[i].content[k].flat.raw.path :
               k \in {k \in 1..Len(states[i].content) :
                         /\ states[i].content[k].ok
                         /\ states[i].content[k].flat.loop_link # NoLoop}}
           : i \in {i \in 1..Len(states) : states[i].position = "CloseDir"}}

-----------------------------------------------------------------------------
(* The properties *)

\* C1: with max_open = K > 0, whatever sequence of next() and
\* skip_current_dir() calls is made, the number of states whose handle is
\* Opened, and opened_count, are at most K.
C1_OpenHandleBound ==
    opts.max_open > 0 =>
        /\ Cardinality(OpenedStates) <= opts.max_open
        /\ opened_count <= opts.max_open

\* the budget is used up, a directory still being walked was drained to
\* respect it, and skip_current_dir was called
C1_Witness ==
    /\ opts.max_open > 0
    /\ opened_count = opts.max_open
    /\ skips > 0
    /\ \E i \in 2..Len(states) :
          /\ ~IsOpen(states[i])
          /\ states[i].position = "Entry"
          /\ states[i].current_pos + 1 < Len(states[i].content)

\* C2: between two calls of next(), also after one that returned an Error,
\* opened_count is the number of states of the stack whose handle is Opened.
C2_CounterIsOpened ==
    BetweenTicks => opened_count = Cardinality(OpenedStates)

\* next() has returned an Error while a handle is open
C2_Witness ==
    /\ ret.type = "Error"
    /\ opened_count >= 1
    /\ OpenedStates # {}

\* C3: a run of next() calls that has returned None has produced a
\* well-nested stream: the Open* and CloseDir positions match like brackets,
\* no directory is opened twice, and every Entry, Error and Open* lies in the
\* directory it belongs to, at its depth.
C3_WellNested ==
    ret.type = "None" => WellNested(trace)

\* a finished run with an error and a directory inside a directory
C3_Witness ==
    /\ ret.type = "None"
    /\ \E i, j, k \in 1..Len(trace) :
          /\ i < j /\ j < k
          /\ IsOpenEv(trace[i]) /\ Level(trace, i) = 1
          /\ trace[j].type = "CloseDir"
          /\ trace[k].type = "Error"

\* C4: on a tree without symlinks a full run emits as Entry exactly once each
\* entry whose depth is between min_depth and max_depth and that passes
\* content_filter, and no other Entry, whatever max_open, contents_first,
\* content_order and the sorter are.
C4_EntriesExactlyOnce ==
    (fs \in PlainTrees /\ ~opts.same_file_system /\ ret.type = "None") =>
        LET es == Entries(trace)
        IN  /\ \A i, j \in 1..Len(es) : i # j => es[i].item.path # es[j].item.path
            /\ {es[i].item.path : i \in 1..Len(es)}
                   = {p \in PathsFrom(fs, <<fs.root>>) : Selected(fs, opts, p)}

\* a finished run over a/{b, c/{e, d}} with one handle, a depth window and a
\* filter that leave some entries out
C4_Witness ==
    /\ fs = FSTree
    /\ ret.type = "None"
    /\ opts.max_open = 1
    /\ opts.min_depth = 1
    /\ opts.content_filter = "FilesOnly"
    /\ opts.content_order = "DirsFirst"
    /\ Len(Entries(trace)) = 3

\* C5: on a tree on which no call fails, with or without symlinks, the
\* stream a run with max_open = K >= 1 has produced when it ends is the
\* stream of the run with the same tree and the same other options and no
\* limit on the handles.
C5_MaxOpenNoImpact ==
    (fs \in PlainTrees \cup LinkTrees /\ opts.max_open > 0
        /\ ret.type \in {"None", "Panic"}) =>
        trace = RunToEnd(NewEngine(fs, [opts EXCEPT !.max_open = 0])).trace

\* C6: with follow_links on and yield_loop_links off, once the entries of a
\* directory have been gone through, each of them that is a loop link has
\* given exactly one Loop error, no Entry and no Open*.
C6_LoopLinkGivesLoopError ==
    (opts.follow_links /\ ~opts.yield_loop_links) =>
        \A p \in DoneLoopLinks :
            /\ Cardinality({j \in 1..Len(trace) :
                               IsLoopErr(trace[j]) /\ trace[j].err.path = p}) = 1
            /\ \A j \in 1..Len(trace) :
                  (trace[j].type = "Entry" \/ IsOpenEv(trace[j])) =>
                      trace[j].item.path # p

\* C7: with follow_links and yield_loop_links on, once the entries of a
\* directory have been gone through, each of them that is a loop link (and
\* passes min_depth; LinkOpts has no content_filter) has been emitted exactly
\* once as Entry, with no Loop error and no Open*.
C7_LoopLinkEmittedOnce ==
    (opts.follow_links /\ opts.yield_loop_links) =>
        \A p \in DoneLoopLinks :
            (Len(p) - 1 >= opts.min_depth /\ opts.content_filter = "None") =>
                /\ Cardinality({j \in 1..Len(trace) :
                                   trace[j].type = "Entry" /\ trace[j].item.path = p}) = 1
                /\ \A j \in 1..Len(trace) :
                      /\ IsLoopErr(trace[j]) => trace[j].err.path # p
                      /\ IsOpenEv(trace[j]) => trace[j].item.path # p

\* make_loop_error is about to be called for the current record
LoopErrorDue ==
    /\ AtEntryDirFirst(Eng)
    /\ transition_state = "None"
    /\ AllowPush(Eng, GetCurrentRec(CurState(Eng)))
    /\ GetCurrentRec(CurState(Eng)).flat.loop_link # NoLoop
    /\ ~opts.yield_loop_links

\* C8: when a Loop error is built, loop_link is an index of the ancestor
\* stack, and the ancestor there is a directory on the path of the symlink
\* with the fingerprint of the symlink's target, for every max_open.
C8_LoopLinkIsAncestor ==
    LoopErrorDue =>
        LET flat == GetCurrentRec(CurState(Eng)).flat
        IN  /\ flat.loop_link < Len(ancestors)
            /\ ancestors[flat.loop_link + 1].fingerprint
                   = FsFingerprint(fs, RawNode(flat.raw))
            /\ IsPrefix(ancestors[flat.loop_link + 1].path, flat.raw.path)

\* C9: with follow_links on and yield_loop_links off, in r/{f, x -> r} no
\* Open* is emitted for r/x, and the finished run has emitted the Loop error
\* with ancestor r and child r/x, with a sorter and without.
C9_SelfLinkNotDescended ==
    (fs = FSLoopSelf /\ opts.follow_links /\ ~opts.yield_loop_links) =>
        /\ \A j \in 1..Len(trace) : IsOpenEv(trace[j]) => trace[j].item.path # <<1, 2>>
        /\ ret.type = "None" =>
              \E j \in 1..Len(trace) :
                  /\ IsLoopErr(trace[j])
                  /\ trace[j].err.ancestor = <<1>>
                  /\ trace[j].err.path = <<1, 2>>

\* C10: with follow_links on, a run of next() calls over a file system with
\* symlinks eventually returns None: a call that panics ends the run without
\* it, so no call panics.
C10_RunReachesNone ==
    (fs \in LinkTrees /\ opts.follow_links) => ret.type # "Panic"

\* the first call of next() failed in init and returned its Error
InitFailed ==
    /\ ~root
    /\ states = <<>>
    /\ Len(trace) >= 1
    /\ trace[1].type = "Error"

\* C11: if building the root entry fails, or reading the root's device number
\* under same_file_system fails, the first call of next() returns one Error
\* of depth 0, and every later call returns None: nothing else is emitted
\* and no call panics.
C11_InitFailureThenNone ==
    InitFailed =>
        /\ trace = <<trace[1]>>
        /\ trace[1].depth = 0
        /\ ret.type \in {"Error", "None"}

\* the stream skip_current_dir is to leave of the stream tr of the run that
\* goes on without it, when it is called after the n-th position: what lies
\* between the call and the CloseDir of the innermost directory open at the
\* call is cut out, the CloseDir stays
AfterSkip(tr, n) ==
    LET cs == {i \in (n + 1)..Len(tr) :
                  tr[i].type = "CloseDir" /\ Level(tr, i) = Level(tr, n + 1)}
    IN  IF Level(tr, n + 1) <= 0 \/ cs = {} THEN SubSeq(tr, 1, n)
        ELSE SubSeq(tr, 1, n)
                 \o SubSeq(tr, CHOOSE i \in cs : \A j \in cs : i <= j, Len(tr))

\* C12: a call of skip_current_dir between two calls of next(), after any
\* position (CloseDir too), makes the rest of the stream that of the run
\* without the call from which the remaining entries of the current directory
\* and what lies below them are cut out: the directory still gets its CloseDir,
\* once; and a second call right after the first changes nothing.  (Runs that
\* end without the call are compared.)
C12_SkipCutsCurrentDir ==
    [][(SkipCurrentDir /\ ret.type \in Yielded /\ RunToEnd(Eng).ret.type = "None") =>
          /\ RunToEnd(Eng').trace = AfterSkip(RunToEnd(Eng).trace, Len(trace))
          /\ DoSkipCurrentDir(Eng') = Eng']_vars

-----------------------------------------------------------------------------
(* The filter_entry adapter: FilterEntry of src/walk/iter.rs around the     *)
(* iterator.  predicate holds the paths of the entries the predicate of the *)
(* adapter answers false for.                                               *)

\* the file systems the adapter is run on
FilterTrees == {FSTree, FSDevices, FSErrors, FSNoRoot}

\* the predicates tried: one rejecting nothing, and for each entry of the
\* tree one rejecting just it
Predicates(f) ==
    {{}} \cup (IF f.root = 0 THEN {} ELSE {{p} : p \in PathsFrom(f, <<f.root>>)})

FilterOpts ==
    {[BaseOpts EXCEPT !.max_open = k, !.contents_first = cf]
        : k \in 0..1, cf \in BOOLEAN}

\* inner.next() has returned an Entry the predicate answers false for
Rejected(e, pred) == e.ret.type = "Entry" /\ e.ret.item.path \in pred

\* FilterEntry::next after inner.next() returned a rejected Entry: the
\* directory is skipped and the loop of the adapter goes on
DoFilterReject(e) ==
    Continue(IF e.ret.item.is_dir THEN DoSkipCurrentDir(e) ELSE e)

FilterReject ==
    /\ Rejected(Eng, predicate)
    /\ Apply(DoFilterReject(Eng))
    /\ UNCHANGED skips

\* the positions FilterEntry::next returns: those of the inner iterator but
\* the rejected entries
FilterOut(tr, pred) ==
    SelectSeq(tr, LAMBDA ev : ~(ev.type = "Entry" /\ ev.item.path \in pred))

InitFilter ==
    /\ fs \in FilterTrees
    /\ opts \in FilterOpts
    /\ predicate \in Predicates(fs)
    /\ InitEngine

\* the calls of next() of the adapter: inner.next() is called again by the
\* caller, or by the adapter after a rejected entry
NextFilter ==
    \/ ~Rejected(Eng, predicate) /\ Next
    \/ FilterReject

SpecFilter == InitFilter /\ [][NextFilter]_vars

\* the entries after the rejected directory p in the directory it lies in
\* (in the order they are read in), that the options let through
LaterSiblings(f, o, p) ==
    LET ks == f.kids[p[Len(p) - 1]]
    IN  {Append(ParentPath(p), ks[j]) :
            j \in {j \in 1..Len(ks) :
                      /\ \E i \in 1..(j - 1) : ks[i] = Last(p)
                      /\ Selected(f, o, Append(ParentPath(p), ks[j]))}}

\* C13: with contents_first off, a directory the predicate of filter_entry
\* rejects (the adapter then calls skip_current_dir right after its Entry)
\* is not yielded by the adapter and not descended into, and when the run
\* has ended every later entry of the same directory that satisfies the
\* predicate has been yielded.
C13_RejectedDirSiblingsKept ==
    (fs \in PlainTrees /\ ~opts.contents_first) =>
        \A p \in predicate :
            fs.kind[Last(p)] = "dir" =>
                /\ \A i \in 1..Len(trace) : IsOpenEv(trace[i]) => trace[i].item.path # p
                /\ \A i \in 1..Len(FilterOut(trace, predicate)) :
                      FilterOut(trace, predicate)[i].type = "Entry" =>
                          FilterOut(trace, predicate)[i].item.path # p
                /\ (ret.type = "None" /\ Len(p) > 1) =>
                      \A q \in LaterSiblings(fs, opts, p) :
                          \E i \in 1..Len(trace) :
                              trace[i].type = "Entry" /\ trace[i].item.path = q

\* C14: with contents_first on, the stream filter_entry with predicate p
\* has yielded when the run ends is the stream of the run of the plain
\* iterator from which the Entry positions p answers false for are left out
\* (Iterator::filter with p on the entries).
C14_FilterEntryIsFilter ==
    (opts.contents_first /\ ret.type = "None") =>
        FilterOut(trace, predicate)
            = FilterOut(RunToEnd(NewEngine(fs, opts)).trace, predicate)

\* the CloseDir at k closes the directory the Open* at j of tr opened
Closes(tr, j, k) ==
    /\ j < k
    /\ tr[k].type = "CloseDir"
    /\ Level(tr, k) = Level(tr, j) + 1
    /\ \A l \in (j + 1)..(k - 1) :
          ~(tr[l].type = "CloseDir" /\ Level(tr, l) = Level(tr, j) + 1)

\* C15: for every directory that is emitted as Entry and descended into,
\* with contents_first off the Entry comes before its Open* (so before the
\* positions of its contents), and with contents_first on it comes after its
\* CloseDir; the root's Entry is the first position of the stream when
\* contents_first is off and the last of a finished run when it is on.
C15_EntryBeforeOrAfterContents ==
    /\ \A i, j \in 1..Len(trace) :
          (/\ trace[i].type = "Entry"
           /\ IsOpenEv(trace[j])
           /\ trace[i].item.path = trace[j].item.path) =>
              IF opts.contents_first
              THEN \E k \in (j + 1)..(i - 1) : Closes(trace, j, k)
              ELSE i < j
    /\ \A i \in 1..Len(trace) :
          (trace[i].type = "Entry" /\ trace[i].item.depth = 0) =>
              IF opts.contents_first
              THEN ret.type = "None" => i = Len(trace)
              ELSE i = 1

\* a finished contents_first run in which a directory below the root was
\* emitted after its CloseDir
C15_Witness ==
    /\ opts.contents_first
    /\ ret.type = "None"
    /\ \E i, j, k \in 1..Len(trace) :
          /\ trace[i].type = "Entry"
          /\ trace[i].item.depth = 1
          /\ IsOpenEv(trace[j])
          /\ trace[i].item.path = trace[j].item.path
          /\ Closes(trace, j, k)
          /\ k < i

\* the positions at a and b of tr belong to entries of one directory
Siblings(tr, a, b) ==
    /\ Len(tr[a].item.path) > 1
    /\ Len(tr[a].item.path) = Len(tr[b].item.path)
    /\ ParentPath(tr[a].item.path) = ParentPath(tr[b].item.path)

IsFileEntry(ev) == ev.type = "Entry" /\ ~ev.item.is_dir
IsDirEntry(ev) == ev.type = "Entry" /\ ev.item.is_dir

\* C16: with content_order DirsFirst, in every directory the Entry of each
\* directory child and the whole Open*..CloseDir window of each child come
\* before the Entry of every non-directory child; with FilesFirst the Entry
\* of each non-directory child comes before the Entry and the Open* of every
\* directory child; whether the directory is read lazily, was drained for
\* max_open, or was loaded and sorted.
C16_ContentOrder ==
    \A a, b \in 1..Len(trace) :
        (IsFileEntry(trace[a]) /\ (IsDirEntry(trace[b]) \/ IsOpenEv(trace[b]))
            /\ Siblings(trace, a, b)) =>
            CASE opts.content_order = "DirsFirst" ->
                     /\ b < a
                     /\ IsOpenEv(trace[b]) =>
                           \E k \in (b + 1)..(a - 1) : Closes(trace, b, k)
              [] opts.content_order = "FilesFirst" -> a < b
              [] opts.content_order = "None" -> TRUE

\* a finished DirsFirst run over a/{b, c/{e, d}} (b is read first) with one
\* handle, so that a was drained: c and its contents came before b
C16_Witness ==
    /\ fs = FSTree
    /\ opts.content_order = "DirsFirst"
    /\ opts.content_filter = "None"
    /\ opts.max_open = 1
    /\ ret.type = "None"
    /\ \E a, b, k \in 1..Len(trace) :
          /\ IsOpenEv(trace[b]) /\ trace[b].item.path = <<1, 3>>
          /\ Closes(trace, b, k)
          /\ k < a
          /\ IsFileEntry(trace[a]) /\ trace[a].item.path = <<1, 2>>

\* the positions of tr that are not an Entry
NonEntries(tr) == SelectSeq(tr, LAMBDA ev : ev.type # "Entry")

\* the directories of the tree f that the walk with options o can open: those
\* above max_depth whose read_dir succeeds and whose ancestors are such too
RECURSIVE DirsToOpen(_, _, _)
DirsToOpen(f, o, p) ==
    IF f.kind[Last(p)] # "dir" \/ Last(p) \in f.rdErr \/ Len(p) - 1 >= o.max_depth
    THEN {}
    ELSE {p} \cup UNION {DirsToOpen(f, o, Append(p, f.kids[Last(p)][i]))
                            : i \in 1..Len(f.kids[Last(p)])}

\* C17: with content_filter DirsOnly no Entry of a non-directory is emitted;
\* with FilesOnly no Entry of a directory is emitted, and with SkipAll no
\* Entry at all, while every directory is still descended into: a finished
\* run has opened every directory max_depth allows, and its Open*, CloseDir
\* and Error positions are those of the run without the filter.
C17_ContentFilter ==
    /\ \A i \in 1..Len(trace) :
          trace[i].type = "Entry" =>
              CASE opts.content_filter = "DirsOnly" -> trace[i].item.is_dir
                [] opts.content_filter = "FilesOnly" -> ~trace[i].item.is_dir
                [] opts.content_filter = "SkipAll" -> FALSE
                [] opts.content_filter = "None" -> TRUE
    /\ (opts.content_filter \in {"FilesOnly", "SkipAll"} /\ ret.type = "None"
           /\ fs \in PlainTrees \cup {FSErrors}) =>
          /\ {trace[i].item.path : i \in {i \in 1..Len(trace) : IsOpenEv(trace[i])}}
                 = DirsToOpen(fs, opts, <<fs.root>>)
          /\ NonEntries(trace)
                 = NonEntries(RunToEnd(NewEngine(fs,
                                  [opts EXCEPT !.content_filter = "None"])).trace)

\* a finished SkipAll run over the tree with failing entries: errors and
\* opened directories, no Entry
C17_Witness ==
    /\ fs = FSErrors
    /\ opts.content_filter = "SkipAll"
    /\ ret.type = "None"
    /\ Entries(trace) = <<>>
    /\ \E i, j, k \in 1..Len(trace) :
          /\ trace[i].type = "Error"
          /\ IsOpenEv(trace[j]) /\ trace[j].item.depth = 1
          /\ trace[k].type = "CloseDir"

\* C18: every Entry has a depth d with min_depth <= d <= max_depth; a
\* directory at depth max_depth is not descended into: no Open* is emitted
\* for it and the stack never holds more than max_depth + 1 states; a
\* directory shallower than min_depth is not emitted but is descended into
\* (without symlinks followed: a finished run has opened it).
C18_DepthWindow ==
    /\ \A i \in 1..Len(trace) :
          /\ trace[i].type = "Entry" =>
                /\ opts.min_depth <= trace[i].item.depth
                /\ trace[i].item.depth <= opts.max_depth
          /\ IsOpenEv(trace[i]) => trace[i].item.depth < opts.max_depth
    /\ Len(states) <= opts.max_depth + 1
    /\ (ret.type = "None" /\ ~opts.follow_links /\ fs \in PlainTrees \cup {FSErrors}) =>
          \A p \in DirsToOpen(fs, opts, <<fs.root>>) :
              Len(p) - 1 < opts.min_depth =>
                  /\ \E i \in 1..Len(trace) : IsOpenEv(trace[i]) /\ trace[i].item.path = p
                  /\ \A i \in 1..Len(trace) :
                        trace[i].type = "Entry" => trace[i].item.path # p

\* a finished run over a/{b, c/{e, d}} with min_depth = max_depth = 1: a is
\* opened and not emitted, c is emitted and not opened
C18_Witness ==
    /\ fs = FSTree
    /\ opts.min_depth = 1
    /\ opts.max_depth = 1
    /\ opts.content_filter = "None"
    /\ ret.type = "None"
    /\ \E i, j \in 1..Len(trace) :
          /\ IsOpenEv(trace[i]) /\ trace[i].item.path = <<1>>
          /\ trace[j].type = "Entry" /\ trace[j].item.path = <<1, 3>>
    /\ \A i \in 1..Len(trace) :
          /\ IsOpenEv(trace[i]) => trace[i].item.path # <<1, 3>>
          /\ trace[i].type = "Entry" => trace[i].item.path # <<1>>

\* the file system f in which the directories that cannot be opened are
\* empty directories that can
Readable(f) ==
    [f EXCEPT !.rdErr = {},
              !.kids = [n \in DOMAIN f.kids |->
                           IF n \in f.rdErr THEN <<>> ELSE f.kids[n]]]

\* the stream tr of a walk of Readable(f) in which the Open* and the CloseDir
\* of the directory that cannot be opened in f are replaced by one Error
OpenFailed(f, tr) ==
    LET js == {j \in 1..Len(tr) : IsOpenEv(tr[j]) /\ Last(tr[j].item.path) \in f.rdErr}
    IN  IF js = {} THEN tr
        ELSE With(CHOOSE j \in js : TRUE, LAMBDA j :
                 SubSeq(tr, 1, j - 1) \o <<EvError(IoErr, tr[j].item.depth)>>
                     \o SubSeq(tr, j + 2, Len(tr)))

\* C19: when the read-dir handle of a directory cannot be opened, the
\* failure is emitted once as Error, no Open*, CloseDir or position of an
\* entry of that directory is emitted, and the walk goes on with the next
\* sibling: the stream of a finished run is the one over the same tree with
\* that directory empty and readable, with its Open* and CloseDir replaced
\* by the Error.
C19_OpenFailureIsOneError ==
    /\ \A i \in 1..Len(trace) :
          \A k \in 1..Len(trace[i].item.path) :
              trace[i].item.path[k] \in fs.rdErr =>
                  trace[i].type = "Entry" /\ k = Len(trace[i].item.path)
    /\ (fs = FSErrors /\ ret.type = "None") =>
          trace = OpenFailed(fs, RunToEnd(NewEngine(Readable(fs), opts)).trace)

\* a finished run over the tree with the unreadable directory u, deep enough
\* to try to open u, with positions after the Error of u
C19_Witness ==
    /\ fs = FSErrors
    /\ ret.type = "None"
    /\ ~opts.contents_first
    /\ opts.content_order = "None"
    /\ ~opts.sorter
    /\ \E i \in 1..Len(trace) :
          /\ trace[i].type = "Entry" /\ trace[i].item.path = <<1, 2>>
          /\ i + 3 <= Len(trace)
          /\ trace[i + 1].type = "Error"
          /\ trace[i + 3].type = "Entry" /\ trace[i + 3].item.path = <<1, 4>>

\* the entries of f whose record is an error under options o: those whose
\* file type cannot be read, and the symlinks to nowhere when links are followed
FailingEntries(f, o) ==
    {n \in 1..Len(f.kind) :
        \/ f.kind[n] = "bad"
        \/ o.follow_links /\ f.kind[n] = "link" /\ f.target[n] = 0}

\* the file system f without these entries
WithoutFailing(f, o) ==
    [f EXCEPT !.kids = [n \in DOMAIN f.kids |->
                           SelectSeq(f.kids[n],
                                     LAMBDA k : k \notin FailingEntries(f, o))]]

\* the number of Error positions tr has more than ref, when tr is ref with
\* Error positions put in; -1 when it is not
RECURSIVE ExtraErrors(_, _)
ExtraErrors(tr, ref) ==
    IF tr = <<>> THEN (IF ref = <<>> THEN 0 ELSE -1)
    ELSE IF ref # <<>> /\ Head(tr) = Head(ref) THEN ExtraErrors(Tail(tr), Tail(ref))
    ELSE IF Head(tr).type # "Error" THEN -1
    ELSE With(ExtraErrors(Tail(tr), ref), LAMBDA n : IF n < 0 THEN -1 ELSE n + 1)

\* C20: an entry whose construction or processing fails is emitted once as
\* an Error that carries the depth of the state of the directory it lies in,
\* and the walk goes on with the next entry of that directory, losing none:
\* the stream of a finished run is the one over the tree without the failing
\* entries with one Error more for each of them.
C20_EntryFailureIsOneError ==
    /\ \A i \in 1..Len(trace) :
          trace[i].type = "Error" => trace[i].depth = Level(trace, i)
    /\ (fs = FSErrors /\ ret.type = "None") =>
          ExtraErrors(trace, RunToEnd(NewEngine(WithoutFailing(fs, opts), opts)).trace)
              = Cardinality(FailingEntries(fs, opts))

\* a finished run over the tree with failing entries, symlinks followed: the
\* errors of b and z, and the Entry of f, the last entry of the directory
C20_Witness ==
    /\ fs = FSErrors
    /\ opts.follow_links
    /\ ret.type = "None"
    /\ Cardinality({i \in 1..Len(trace) : trace[i].type = "Error"}) >= 2
    /\ \E i, j \in 1..Len(trace) :
          /\ i < j
          /\ trace[i].type = "Error"
          /\ trace[j].type = "Entry" /\ trace[j].item.path = <<1, 8>>

\* C21: no Open* and no CloseDir is emitted for the root: every Open* is for
\* a directory below the root, and the finished run over a/{b, c/{e, d}}
\* that descends everywhere holds one Open* and one CloseDir, those of a/c.
C21_NoOpenCloseForRoot ==
    /\ \A i \in 1..Len(trace) : IsOpenEv(trace[i]) => trace[i].item.depth > 0
    /\ (fs = FSTree /\ opts.max_depth > 1 /\ ret.type = "None") =>
          /\ Cardinality({i \in 1..Len(trace) : IsOpenEv(trace[i])}) = 1
          /\ Cardinality({i \in 1..Len(trace) : trace[i].type = "CloseDir"}) = 1

\* C22: when the root is a non-directory file, a run yields one position,
\* the Entry of the root at depth 0, and then returns None: no Open*, no
\* CloseDir, no Error.
C22_FileRoot ==
    (fs = FSFileRoot /\ opts.min_depth = 0 /\ opts.content_filter \in {"None", "FilesOnly"}) =>
        /\ Len(trace) <= 1
        /\ ret.type # "Panic"
        /\ \A i \in 1..Len(trace) :
              trace[i] = EvEntry([path |-> <<1>>, follow_link |-> FALSE,
                                  is_dir |-> FALSE, depth |-> 0])
        /\ ret.type = "None" => Len(trace) = 1

\* the finished run over the file root with a handle limit and a sorter
C22_Witness ==
    /\ fs = FSFileRoot
    /\ opts.min_depth = 0
    /\ opts.content_filter = "None"
    /\ opts.max_open = 1
    /\ opts.sorter
    /\ ret.type = "None"
    /\ Len(trace) = 1

\* WalkDirBuilder::max_open: the value of the option after max_open(n)
\* (0 stands for None: no limit)
BuilderMaxOpen(n) == IF n > 0 THEN n ELSE 0

\* C23: max_open(0) is set to 1: a walk built with max_open(0) keeps at most
\* one directory handle open at any time.
C23_MaxOpenZeroIsOne ==
    opts.max_open = BuilderMaxOpen(0) =>
        /\ Cardinality(OpenedStates) <= 1
        /\ opened_count <= 1

\* the device number of the entry a DirEntry stands for: that of the target
\* when the entry is a followed symlink, else that of the entry itself
EntryDevice(f, item) ==
    IF item.follow_link THEN FsDeviceNum(f, Last(item.path)) ELSE f.dev[Last(item.path)]

\* the directories of f (symlinks to directories too when they are followed)
\* that lie on another device than the root
OtherDeviceDirs(f, o) ==
    {n \in 1..Len(f.kind) :
        /\ FsDeviceNum(f, n) # f.dev[f.root]
        /\ \/ f.kind[n] = "dir"
           \/ o.follow_links /\ f.kind[n] = "link" /\ f.kind[Resolve(f, n)] = "dir"}

\* C24: with same_file_system on, no emitted Entry has a device number
\* other than the root's, also when follow_links is on and the target of a
\* symlink is a non-directory on another device; a directory on another
\* device is skipped silently: no Entry, no Open* and no Error for it.
C24_SameFileSystem ==
    (opts.same_file_system /\ fs \in {FSDevices, FSDevLink}) =>
        /\ \A i \in 1..Len(trace) :
              /\ trace[i].type = "Entry" =>
                    EntryDevice(fs, trace[i].item) = fs.dev[fs.root]
              /\ (trace[i].type = "Entry" \/ IsOpenEv(trace[i])) =>
                    Last(trace[i].item.path) \notin OtherDeviceDirs(fs, opts)
              /\ trace[i].type # "Error"

\* the records are in the order sort_content_and_rewind leaves them in:
\* none is Greater than a later one
Sorted(content) ==
    \A i, j \in 1..Len(content) : i < j => ~RecordGreater(content[i], content[j])

\* the positions at a and b of tr are entries of one directory that the
\* passes of content order o do not separate
SamePass(o, tr, a, b) ==
    /\ tr[a].type = "Entry" /\ tr[b].type = "Entry"
    /\ Siblings(tr, a, b)
    /\ o.content_order # "None" => tr[a].item.is_dir = tr[b].item.is_dir

\* C25: with a sorter every directory state holds all its records, read and
\* sorted when the state was built (its handle is closed before the first
\* advance), error records before the Ok records and these in the order of
\* the comparator; the entries of a directory are emitted in that order, in
\* each of the two passes when content_order is not None, and the Error of
\* the records that failed before the entries, in the order they were read in.
C25_SortedContent ==
    opts.sorter =>
        /\ \A i \in 1..Len(states) :
              /\ ~IsOpen(states[i])
              /\ Sorted(states[i].content)
        /\ \A a, b \in 1..Len(trace) :
              (a < b /\ SamePass(opts, trace, a, b)) =>
                  Last(trace[a].item.path) < Last(trace[b].item.path)
        /\ (fs = FSErrors /\ opts.content_order = "None" /\ ret.type = "None") =>
              \A j \in 1..Len(trace) :
                  (IsOpenEv(trace[j]) /\ trace[j].item.depth = 0) =>
                      /\ \A k \in 1..Cardinality(FailingEntries(fs, opts)) :
                            trace[j + k].type = "Error"
                      /\ opts.follow_links =>
                            /\ trace[j + 1].err = IoErr
                            /\ trace[j + 2].err = PathErr(<<1, 6>>)

\* a finished run with a sorter over a/{b, c/{e, d}}, where e is read before
\* d and the comparator puts d first
C25_Witness ==
    /\ fs = FSTree
    /\ opts.sorter
    /\ ret.type = "None"
    /\ \E a, b \in 1..Len(trace) :
          /\ a < b
          /\ trace[a].type = "Entry" /\ trace[a].item.path = <<1, 3, 4>>
          /\ trace[b].type = "Entry" /\ trace[b].item.path = <<1, 3, 5>>

\* C26: skip_current_dir changes the position of the top directory state
\* (to CloseDir) and the transition state (to None) and nothing else: the
\* stack of states, every state's handle, cursor, pass and records, the
\* ancestors and opened_count stay as they are; with an empty stack (before
\* the first call of next()) it changes nothing at all.
C26_SkipFrame ==
    [][SkipCurrentDir =>
          /\ UNCHANGED <<fs, opts, root, ancestors, opened_count, root_device, ret, trace>>
          /\ states = <<>> => UNCHANGED <<states, transition_state>>
          /\ states # <<>> =>
                /\ transition_state' = "None"
                /\ states' = [states EXCEPT ![Len(states)].position = "CloseDir"]]_vars

\* skip_current_dir was called on a directory with entries left to go
\* through, while a step of a descent was pending
C26_Witness ==
    /\ skips > 0
    /\ ret.type = "Entry"
    /\ ret.item.is_dir
    /\ Len(states) >= 2
    /\ transition_state = "None"
    /\ CurState(Eng).position = "CloseDir"
    /\ CurState(Eng).current_pos + 1 < Len(CurState(Eng).content)

\* C27: with skip_current_dir called between any two calls of next(), the
\* walk of a finite tree still ends: from every state the calls of next()
\* that follow reach None (where a walk without skips does not panic), and
\* no directory gets more than one CloseDir: the stream never holds more
\* CloseDir than Open* positions.
C27_SkipTerminates ==
    /\ RunToEnd(NewEngine(fs, opts)).ret.type = "None" =>
          RunToEnd(Eng).ret.type = "None"
    /\ Cardinality({k \in 1..Len(trace) : trace[k].type = "CloseDir"})
          <= Cardinality({j \in 1..Len(trace) : IsOpenEv(trace[j])})

\* the records load_all appended to the state st when it became st2
Appended(st, st2) == SubSeq(st2.content, Len(st.content) + 1, Len(st2.content))

\* the number of positions of tr that emit the entry of path p: its Entry,
\* or the Loop error given in its place
Emissions(tr, p) ==
    Cardinality({j \in 1..Len(tr) :
        \/ tr[j].type = "Entry" /\ tr[j].item.path = p
        \/ IsLoopErr(tr[j]) /\ tr[j].err.path = p})

\* C28: a CloseOldestBeforePushDown step taken with opened_count = max_open
\* closes exactly one handle, that of the shallowest state whose handle is
\* Opened. Every other state, the ancestors, and the drained state's depth,
\* cursor, pass, position and the records it already had are unchanged; the
\* records appended are the entries the handle had not returned yet, in the
\* order the handle returns them; and the rest of the run ends with None
\* and emits every appended entry once, where the same walk without a limit
\* on the handles emits it, and never twice.
C28_DrainShallowest ==
    [][(CloseOldest /\ opts.max_open > 0 /\ opened_count = opts.max_open) =>
          \E i \in OpenedStates :
              /\ \A k \in OpenedStates : i <= k
              /\ opened_count' = opened_count - 1
              /\ ancestors' = ancestors
              /\ Len(states') = Len(states)
              /\ \A k \in 1..Len(states) : k # i => states'[k] = states[k]
              /\ states'[i] = [states[i] EXCEPT !.rd = RdClosed,
                                                !.content = states'[i].content]
              /\ IsPrefix(states[i].content, states'[i].content)
              /\ With(Appended(states[i], states'[i]), LAMBDA app :
                    /\ Len(app) <= Len(states[i].rd.rest)
                    /\ With(SelectSeq(app, LAMBDA r : r.ok), LAMBDA oks :
                          [k \in 1..Len(oks) |-> RawNode(oks[k].flat.raw)]
                             = SelectSeq(states[i].rd.rest, LAMBDA n :
                                   \E k \in 1..Len(oks) : RawNode(oks[k].flat.raw) = n))
                    /\ With(RunToEnd(Eng'), LAMBDA end :
                       With(RunToEnd(NewEngine(fs, [opts EXCEPT !.max_open = 0])),
                            LAMBDA ref :
                          /\ ref.ret.type = "None" => end.ret.type = "None"
                          /\ \A k \in 1..Len(app) :
                                app[k].ok =>
                                    /\ Emissions(end.trace, app[k].flat.raw.path) <= 1
                                    /\ Emissions(end.trace, app[k].flat.raw.path)
                                          = Emissions(ref.trace, app[k].flat.raw.path))))]_vars

\* C29: between two calls of next(), once the root has been pushed: with
\* follow_links the ancestor stack is as long as the stack of directory
\* states, and without follow_links the ancestor stack is empty.
C29_AncestorsFollowStates ==
    (BetweenTicks /\ ~root /\ states # <<>>) =>
        IF opts.follow_links
        THEN Len(ancestors) = Len(states)
        ELSE ancestors = <<>>

\* C30: a BeforePushDown step in which building the state of the child
\* directory fails (the read_dir open, or, under follow_links, the
\* fingerprint of the ancestor taken after the handle was opened) returns an
\* Error and leaves the stack of states, the ancestor stack and opened_count
\* as they were before the step.
C30_FailedPushChangesNothing ==
    [][(EntryDirPushDown /\ ret'.type # "Continue") =>
          /\ ret'.type = "Error"
          /\ states' = states
          /\ ancestors' = ancestors
          /\ opened_count' = opened_count]_vars

\* OpenDir, then Entry, then CloseDir
PositionRank(pos) == CASE pos = "OpenDir" -> 0 [] pos = "Entry" -> 1 [] pos = "CloseDir" -> 2

\* C31: the position of a directory state only moves forward, from OpenDir
\* to Entry to CloseDir. Once a state is at CloseDir, by exhaustion or by
\* skip_all, it stays there as long as it is on the stack, next_position
\* leaves it as it is, and a call of next() with that state on top returns
\* neither an Entry nor an Error.
C31_PositionForward ==
    [][/\ \A i \in 1..Len(states) :
             /\ i <= Len(states') =>
                   PositionRank(states'[i].position) >= PositionRank(states[i].position)
             /\ states[i].position = "CloseDir" =>
                   NextPosition(fs, opts, states[i], root_device, ancestors,
                                opened_count).st = states[i]
       /\ (states # <<>> /\ CurState(Eng).position = "CloseDir" /\ Next) =>
             ret'.type \notin {"Entry", "Error"}]_vars

\* a directory was skipped while entries of it were left, and the next call
\* of next() has returned its CloseDir
C31_Witness ==
    /\ skips > 0
    /\ ret.type = "CloseDir"
    /\ Len(states) >= 2
    /\ CurState(Eng).position = "CloseDir"
    /\ IsOpen(CurState(Eng)) \/ CurState(Eng).current_pos + 1 < Len(CurState(Eng).content)

\* the record at index k (from 1) of st is one shift_next stops at in the second pass
SecondPassRec(st, k) == ~st.content[k].first_pass /\ CanBeYielded(st.content[k])

\* C32: with content_order None the pass of every directory state is always
\* Entire. Otherwise a state is pushed with pass First, its pass changes
\* only from First to Second, and in the step it changes the cursor is
\* rewound: the second pass starts from the first record again, so the state
\* comes to stand at the first record of the second pass, or at CloseDir
\* when there is none. The record a state stands at belongs to its pass, so
\* each record is gone through in one pass only.
C32_PassOnce ==
    [][/\ \A i \in 1..Len(states') :
             /\ states'[i].pass = "Entire" <=> opts.content_order = "None"
             /\ i > Len(states) => states'[i].pass = GetInitialPass(opts)
             /\ (GetCurrentPosition(states'[i]) = "Entry" /\ states'[i].pass # "Entire") =>
                   (GetCurrentRec(states'[i]).first_pass <=> states'[i].pass = "First")
       /\ \A i \in 1..Len(states) :
             (i <= Len(states') /\ states'[i].pass # states[i].pass) =>
                 /\ states[i].pass = "First"
                 /\ states'[i].pass = "Second"
                 /\ \A k \in 1..Len(states'[i].content) :
                       SecondPassRec(states'[i], k) =>
                           /\ states'[i].position = "Entry"
                           /\ states'[i].current_pos + 1 <= k]_vars

\* a state in its second pass stands at a record that lies before a record
\* of the first pass
C32_Witness ==
    \E i \in 1..Len(states) :
        /\ states[i].pass = "Second"
        /\ states[i].position = "Entry"
        /\ \E k \in (states[i].current_pos + 2)..Len(states[i].content) :
              states[i].content[k].first_pass

\* the record rec of the state st is a directory whose Entry next() tries
\* to emit before the descent and the content processor cannot convert
FailedPreDescent(st, rec) ==
    /\ rec.ok
    /\ rec.flat.is_dir
    /\ rec.flat.loop_link = NoLoop
    /\ ~rec.hidden
    /\ st.depth >= opts.min_depth
    /\ ~RawMakeContentItemOk(fs, rec.flat.raw)

\* C33: with contents_first off, a directory whose Entry is to be emitted
\* and that the content processor fails to convert is not descended into:
\* no state is pushed for it (so no handle is opened), no position of the
\* stream names it or anything below it, no call panics, and the walk goes
\* on with its siblings: over r/{c/{x}, g} with c not convertible the
\* finished stream has the Entry of r/g and as many CloseDir as Open*.
C33_ConversionFailureCancelsDescent ==
    ~opts.contents_first =>
        /\ \A i \in 1..Len(states) : \A k \in 1..Len(states[i].content) :
              FailedPreDescent(states[i], states[i].content[k]) =>
                  /\ ~(Len(states) > i /\ states[i].current_pos + 1 = k)
                  /\ \A j \in 1..Len(trace) :
                        ~IsPrefix(states[i].content[k].flat.raw.path, trace[j].item.path)
        /\ (fs = FSCpFail /\ opts.content_filter \in {"None", "DirsOnly"}
              /\ opts.min_depth <= 1) =>
              /\ ret.type # "Panic"
              /\ opened_count <= 1
              /\ (ret.type = "None" /\ opts.content_filter = "None"
                    /\ opts.max_depth >= 1) =>
                    /\ \E j \in 1..Len(trace) :
                          trace[j].type = "Entry" /\ trace[j].item.path = <<1, 4>>
                    /\ Level(trace, Len(trace) + 1) = 0

\* the walk over r/{c/{x}, g} has passed c, which could not be converted,
\* and emitted r/g after it
C33_Witness ==
    /\ fs = FSCpFail
    /\ ~opts.contents_first
    /\ opts.content_order = "None"
    /\ opts.content_filter = "None"
    /\ opts.max_open = 1
    /\ ret.type = "Entry"
    /\ ret.item.path = <<1, 4>>
    /\ FailedPreDescent(CurState(Eng), CurState(Eng).content[1])

\* the nodes of ks in ascending order (the order of the model's comparator)
Ascending(ks) ==
    [i \in 1..Len(ks) |->
        CHOOSE n \in {ks[j] : j \in 1..Len(ks)} :
            Cardinality({j \in 1..Len(ks) : ks[j] < n}) = i - 1]

\* what Open* of the directory of path p carries with the filter flt when no
\* symlink is followed: the entries of p that can be built and converted,
\* in the order the state holds them
ExpectedContent(f, o, flt, p) ==
    LET ks == IF o.sorter THEN Ascending(f.kids[Last(p)]) ELSE f.kids[Last(p)]
        kept == SelectSeq(ks, LAMBDA k :
                    /\ flt # "SkipAll"
                    /\ f.kind[k] # "bad"
                    /\ k \notin f.cpFail
                    /\ flt = "DirsOnly" => f.kind[k] = "dir"
                    /\ flt = "FilesOnly" => f.kind[k] # "dir")
    IN  [i \in 1..Len(kept) |->
            [path |-> Append(p, kept[i]), follow_link |-> FALSE,
             is_dir |-> f.kind[kept[i]] = "dir", depth |-> Len(p)]]

\* the stream with the collections of its Open* positions taken off
WithoutContent(tr) ==
    [i \in 1..Len(tr) |->
        IF tr[i].type = "OpenDirWithContent" THEN EvOpenDir(tr[i].item) ELSE tr[i]]

\* the iterator with yield_open_dir_with_content off
EngOff == [Eng EXCEPT !.opts.yield_open_dir_with_content = FALSE]

\* C34: with yield_open_dir_with_content on, every Open* of a finished or
\* running walk is an OpenDirWithContent whose collection holds the
\* directory's entries that were built and converted, filtered by
\* open_dir_with_content_filter whatever content_filter is (compared with
\* the file system itself where no symlink is followed); the step that
\* builds it leaves the state's cursor, pass and position where the step
\* with the option off leaves them; and the stream of a run that has ended,
\* its collections taken off, is the stream of the walk with the option off,
\* whatever the other options are.
C34_OpenDirWithContent ==
    [][opts.yield_open_dir_with_content =>
          /\ ret'.type # "OpenDir"
          /\ ret'.type = "OpenDirWithContent" =>
                /\ ~opts.follow_links =>
                      ret'.content = ExpectedContent(fs, opts,
                                         opts.open_dir_with_content_filter,
                                         ret'.item.path)
                /\ With(DoOpenDir(EngOff), LAMBDA off :
                      /\ off.ret = EvOpenDir(ret'.item)
                      /\ CurState(Eng').current_pos = CurState(off).current_pos
                      /\ CurState(Eng').pass = CurState(off).pass
                      /\ CurState(Eng').position = CurState(off).position)
          /\ ret'.type \in {"None", "Panic"} =>
                With(RunToEnd(NewEngine(fs, EngOff.opts)), LAMBDA off :
                    /\ off.ret.type = ret'.type
                    /\ off.trace = WithoutContent(trace'))]_vars

\* an OpenDirWithContent was returned whose collection differs from what
\* content_filter lets through, for a directory with entries of both kinds
C34_Witness ==
    /\ ret.type = "OpenDirWithContent"
    /\ fs = FSErrors
    /\ opts.open_dir_with_content_filter = "FilesOnly"
    /\ opts.content_filter = "DirsOnly"
    /\ opts.sorter
    /\ Len(ret.content) >= 2

-----------------------------------------------------------------------------
(* One read-dir handle under calls of next and collect_all in any order.   *)
(* The handle is the rd of the only state of the stack, trace holds what   *)
(* the calls have handed out, ret what the last call of next returned.     *)

\* the other handles counted open while the one handle is used
MaxOthers == 1

\* what a call hands out for a result r of the handle
Delivered(r) ==
    IF r.ok
    THEN EvEntry([path |-> r.raw.path, follow_link |-> r.raw.follow_link,
                  is_dir |-> r.raw.ty = "dir", depth |-> 0])
    ELSE EvError(r.err, 0)

\* the handles a ReadDir can be built as over f: Once with the root entry,
\* Opened on a directory read_dir succeeds on, Error with a stored error, and
\* Closed
Handles(f) ==
    {RdClosed, [RdClosed EXCEPT !.st = "Error", !.err = IoErr]}
    \cup (IF RawFromPath(f).ok THEN {ReadDirNewOnce(RawFromPath(f).raw)} ELSE {})
    \cup (IF f.root = 0 THEN {}
          ELSE {ReadDirNew(f, [path |-> p, follow_link |-> FALSE, ty |-> "dir"])
                   : p \in {q \in PathsFrom(f, <<f.root>>) :
                               f.kind[Last(q)] = "dir" /\ FsReadDirOk(f, Last(q))}})

InitHandle ==
    /\ fs \in FileSystems
    /\ opts = BaseOpts
    /\ predicate = {}
    /\ root = FALSE
    /\ transition_state = "None"
    /\ ancestors = <<>>
    /\ root_device = NoDevice
    /\ skips = 0
    /\ ret = Ev("Start")
    /\ trace = <<>>
    /\ \E rd \in Handles(fs), others \in 0..MaxOthers :
          /\ states = <<DirStateFresh(opts, Len(rd.dir), rd)>>
          /\ opened_count = others + (IF ReadDirIsOpen(rd) THEN 1 ELSE 0)

\* rd.next(&mut opened_count, ctx)
HandleNext ==
    /\ Len(states) = 1
    /\ With(ReadDirNext(fs, states[1].rd, opened_count), LAMBDA n :
          /\ states' = <<[states[1] EXCEPT !.rd = n.rd]>>
          /\ opened_count' = n.oc
          /\ ret' = IF n.none THEN Ev("None") ELSE Delivered(n.r)
          /\ trace' = IF n.none THEN trace ELSE Append(trace, Delivered(n.r)))
    /\ UNCHANGED <<fs, opts, predicate, root, transition_state, ancestors, root_device,
                   skips>>

\* rd.collect_all(...) with the closure DirContent::load_all gives it
HandleCollectAll ==
    /\ Len(states) = 1
    /\ With(ReadDirCollectAll(fs, opts, states[1].rd, states[1].depth, root_device,
                              ancestors, opened_count),
            LAMBDA c :
          /\ states' = <<[states[1] EXCEPT !.rd = c.rd]>>
          /\ opened_count' = c.oc
          /\ trace' = trace \o [i \in 1..Len(c.recs) |->
                                   IF c.recs[i].ok
                                   THEN EvEntry(Item(c.recs[i].flat, 0))
                                   ELSE EvError(c.recs[i].err, 0)])
    /\ UNCHANGED <<fs, opts, predicate, root, transition_state, ancestors, root_device,
                   skips, ret>>

NextHandle == HandleNext \/ HandleCollectAll

SpecHandle == InitHandle /\ [][NextHandle]_vars

\* the handle of SpecHandle
TheHandle == states[1].rd

\* C35: one read-dir handle under next and collect_all in any order. A
\* Closed handle stays Closed, hands out nothing and leaves the counter
\* alone; a Once handle hands out its item and a handle with a stored error
\* its error, once, and is Closed after that call, the counter untouched; an
\* Opened handle hands out its entries one by one in order and is Closed
\* after a call exactly when that call was a next that found the platform
\* iterator at its end or a collect_all, which hands out all that was left.
C35_HandleStateMachine ==
    [][/\ TheHandle.st = "Closed" =>
             /\ TheHandle' = TheHandle
             /\ opened_count' = opened_count
             /\ trace' = trace
             /\ HandleNext => ret'.type = "None"
       /\ TheHandle.st = "Once" =>
             /\ TheHandle' = RdClosed
             /\ opened_count' = opened_count
             /\ trace' = Append(trace, Delivered([ok |-> TRUE, raw |-> TheHandle.item,
                                                  err |-> NoErr]))
       /\ TheHandle.st = "Error" =>
             /\ TheHandle' = RdClosed
             /\ opened_count' = opened_count
             /\ trace' = Append(trace, EvError(TheHandle.err, 0))
       /\ TheHandle.st = "Opened" =>
             /\ TheHandle'.st \in {"Opened", "Closed"}
             /\ TheHandle'.st = "Closed" <=>
                   (HandleNext /\ TheHandle.rest = <<>>) \/ HandleCollectAll
             /\ opened_count' = opened_count - (IF TheHandle'.st = "Closed" THEN 1 ELSE 0)
             /\ Len(trace') + Len(TheHandle'.rest) = Len(trace) + Len(TheHandle.rest)
             /\ \A i \in (Len(trace) + 1)..Len(trace') :
                   trace'[i] = Delivered(RawFromFsdent(fs,
                                   Append(TheHandle.dir, TheHandle.rest[i - Len(trace)])))
             /\ TheHandle'.st = "Opened" =>
                   /\ TheHandle'.rest = Tail(TheHandle.rest)
                   /\ TheHandle'.dir = TheHandle.dir]_vars

\* an Opened handle has handed out two results by next, an error among
\* them, and then the rest by collect_all, which closed it
C35_Witness ==
    /\ Len(states) = 1
    /\ TheHandle.st = "Closed"
    /\ ret.type \in {"Entry", "Error"}
    /\ Len(trace) >= 4
    /\ trace[Len(trace)] # ret
    /\ \E i \in 1..Len(trace) : trace[i].type = "Error"
    /\ \E i \in 1..Len(trace) : trace[i].type = "Entry"

\* C36: every handle built as Opened adds one to opened_count and takes one
\* off again (at the end of its entries, when it is drained, or in on_drop
\* when its state is popped), so opened_count is never negative and is 0
\* whenever no state of the stack has an Opened handle, also once the run
\* has ended.
C36_CounterBalanced ==
    /\ opened_count >= 0
    /\ OpenedStates = {} => opened_count = 0

\* C37: a call of next() that returns an Entry or an Error out of a
\* directory state (an error record, a failed descent or a Loop error)
\* gives it the depth that is the number of Open* minus the number of
\* CloseDir positions returned before it, and that is the index (from 0) of
\* the state on top of the stack when the call took it.
C37_DepthIsLevel ==
    [][(trace' # trace /\ ret'.type \in {"Entry", "Error"} /\ states # <<>>) =>
          With(IF ret'.type = "Entry" THEN ret'.item.depth ELSE ret'.depth, LAMBDA d :
              /\ d = Level(trace', Len(trace'))
              /\ d = Len(states) - 1
              /\ d = CurState(Eng).depth)]_vars

\* a Loop error was returned out of a directory below the root
C37_Witness ==
    /\ IsLoopErr(ret)
    /\ ret.depth = 2
    /\ Level(trace, Len(trace)) = 2

-----------------------------------------------------------------------------
(* C38: the assertion and unreachable points of the engine *)

\* the assert!, assert_eq! and unreachable!() points of next() and of the
\* functions it calls
AssertionPoints ==
    {"OpenDir: transition_state == None", "Entry: unreachable transition_state",
     "non-dir entry: transition_state == None", "Error: transition_state == None",
     "CloseDir: unreachable transition_state", "push_dir_1: loop_link.is_none()",
     "check_max_open: opened_count == max_open", "check_max_open: opened_count > 0",
     "check_max_open: unreachable", "do_debug_checks: opened_count == real_count",
     "get_parent_dent: unreachable", "next: states.len() == 0"}

\* what the match of next() on the top state's position asks of transition_state
TransitionStateFits(e) ==
    With(GetCurrentPosition(CurState(e)), LAMBDA pos :
        /\ pos = "OpenDir" => e.transition_state = "None"
        /\ AtEntryFile(e) => e.transition_state = "None"
        /\ pos = "Error" => e.transition_state = "None"
        /\ (pos = "CloseDir" /\ CurDepth(e) >= 1) =>
               e.transition_state \in {"None", "BeforePopUp"}
        /\ AtEntryDir(e) => e.transition_state # "BeforePopUp")

\* the part of C38 about transition_state, at every iteration of every call
C38_TransitionStateFits ==
    (InLoop(Eng) /\ transition_state # "CloseOldestBeforePushDown") =>
        TransitionStateFits(Eng)

\* C38: once the root is pushed, no sequence of next() and skip_current_dir()
\* calls reaches an assertion or unreachable!() point of the engine: the
\* transition state fits the position of the top state at every iteration, and
\* no call ends in one of these panics.
C38_NoAssertionReached ==
    /\ C38_TransitionStateFits
    /\ (ret.type = "Panic" /\ states # <<>>) => ret.note \notin AssertionPoints

-----------------------------------------------------------------------------
(* C39: exhaustion is stable *)

\* C39: once next() has returned None at the end of a traversal, the next call
\* of next() returns None again and leaves the state stack, the ancestor
\* stack, opened_count and the transition state as they are.
C39_ExhaustionStable ==
    ret.type = "None" =>
        With(Iteration(Eng), LAMBDA e1 :
            /\ e1.ret.type = "None"
            /\ e1.states = states
            /\ e1.ancestors = ancestors
            /\ e1.opened_count = opened_count
            /\ e1.transition_state = transition_state
            /\ e1.trace = trace)

\* None was returned at the end of a walk that went two levels deep
C39_Witness ==
    /\ ret.type = "None"
    /\ states # <<>>
    /\ \E k \in 1..Len(trace) : Level(trace, k) = 2

-----------------------------------------------------------------------------
(* C40: the depth setters of the builder *)

\* the most builder calls made in a row
MaxCalls == 3
\* largest finite depth given to min_depth and max_depth
MaxDepthArg == 3

\* the depths the builder calls are made with; DepthUnlimited is usize::MAX
DepthArgs == (0..MaxDepthArg) \cup {DepthUnlimited}

\* WalkDirBuilder::min_depth without the clamp
BuilderMinDepthUnclamped(o, depth) == [o EXCEPT !.min_depth = depth]

\* WalkDirBuilder::min_depth
BuilderMinDepth(o, depth) ==
    With([o EXCEPT !.min_depth = depth], LAMBDA o1 :
        IF o1.min_depth > o1.max_depth
        THEN [o1 EXCEPT !.min_depth = o1.max_depth]
        ELSE o1)

\* WalkDirBuilder::max_depth
BuilderMaxDepth(o, depth) ==
    With([o EXCEPT !.max_depth = depth], LAMBDA o1 :
        IF o1.max_depth < o1.min_depth
        THEN [o1 EXCEPT !.max_depth = o1.min_depth]
        ELSE o1)

\* WalkDirBuilder::new: the default options, no call made yet
InitBuilder ==
    /\ fs = FSTree
    /\ opts = [BaseOpts EXCEPT !.max_open = 10]
    /\ predicate = {}
    /\ root = TRUE
    /\ states = <<>>
    /\ transition_state = "None"
    /\ ancestors = <<>>
    /\ opened_count = 0
    /\ root_device = NoDevice
    /\ skips = 0
    /\ ret = Ev("Start")
    /\ trace = <<>>

\* builder.min_depth(depth); trace keeps the calls made
CallMinDepth ==
    /\ Len(trace) < MaxCalls
    /\ \E depth \in DepthArgs :
          /\ opts' = BuilderMinDepth(opts, depth)
          /\ trace' = Append(trace, [type |-> "min_depth", depth |-> depth])
    /\ UNCHANGED <<fs, predicate, root, states, transition_state, ancestors,
                   opened_count, root_device, skips, ret>>

\* builder.max_depth(depth)
CallMaxDepth ==
    /\ Len(trace) < MaxCalls
    /\ \E depth \in DepthArgs :
          /\ opts' = BuilderMaxDepth(opts, depth)
          /\ trace' = Append(trace, [type |-> "max_depth", depth |-> depth])
    /\ UNCHANGED <<fs, predicate, root, states, transition_state, ancestors,
                   opened_count, root_device, skips, ret>>

NextBuilder == CallMinDepth \/ CallMaxDepth

SpecBuilder == InitBuilder /\ [][NextBuilder]_vars

\* C40: after any sequence of min_depth(d) and max_depth(d) calls the options
\* have min_depth <= max_depth: min_depth(d) stores d, or the current
\* max_depth when d is above it, and leaves max_depth alone; max_depth(d)
\* stores d, or the current min_depth when d is below it, and leaves
\* min_depth alone.
C40_DepthsOrdered ==
    /\ [](opts.min_depth <= opts.max_depth)
    /\ [][With(Last(trace'), LAMBDA c :
             IF c.type = "min_depth"
             THEN /\ opts'.min_depth =
                        (IF c.depth <= opts.max_depth THEN c.depth ELSE opts.max_depth)
                  /\ opts'.max_depth = opts.max_depth
             ELSE /\ opts'.max_depth =
                        (IF c.depth >= opts.min_depth THEN c.depth ELSE opts.min_depth)
                  /\ opts'.min_depth = opts.min_depth)]_vars

\* max_depth(1), then min_depth(3) clamped down to 1, then max_depth(0)
\* clamped up to 1
C40_Witness ==
    /\ Len(trace) = 3
    /\ trace[1] = [type |-> "max_depth", depth |-> 1]
    /\ trace[2] = [type |-> "min_depth", depth |-> 3]
    /\ trace[3] = [type |-> "max_depth", depth |-> 0]
    /\ opts.min_depth = 1
    /\ opts.max_depth = 1

====
